---- MODULE Spec2Model ----
(***************************************************************************)
(* BeatStream server: the metered streaming session engine.                *)
(*                                                                         *)
(* The model covers the persistent store (users.beats_balance, sessions,   *)
(* stream_history, artists.usdc_earned) with its RPC functions, the        *)
(* WebSocket stream handler (activeStreams, ActiveStream objects, the      *)
(* per-second setInterval timers and the asynchronous tickBeat), and the   *)
(* POST /api/sessions/start and POST /api/sessions/settle handlers.        *)
(*                                                                         *)
(* The server is a single-threaded event loop: code between two awaits     *)
(* runs atomically, and every await on a store or service call is a point  *)
(* where other handlers, timers and ticks interleave.  An action below is  *)
(* one such atomic piece: the store call a handler was awaiting, applied   *)
(* atomically by the store, together with the handler code that runs up to *)
(* its next store call.                                                    *)
(***************************************************************************)
EXTENDS Integers, Sequences, FiniteSets, TLC

\* ---- bounds of the model ------------------------------------------------
MaxBeats == 1       \* beats credited by deposits over a run, and cap on total_beats_paid
MaxTimers == 2      \* setInterval calls over a run (each ActiveStream is created with one)
MaxInflight == 2    \* tickBeat invocations of one stream suspended at an await
MaxMints == 2       \* POST /api/ens/mint-fan-subdomain requests over a run
MaxRequestIds == 2  \* distinct Date.now() values used as channel request ids over a run
UintBits == 12      \* width of the vault's unsigned integers (uint256 in the contract)

\* ---- program constants --------------------------------------------------
BEATS_PER_USDC == 1000
USDC_DECIMALS == 6
USDC_BASE_UNITS == 10^USDC_DECIMALS   \* USDC amounts are kept in base units
FAN_SUBDOMAIN_THRESHOLD == 100
USDC_PER_BEAT == 1000                 \* BeatStreamVault: base units of USDC per beat

Wallets == {"u1", "u2"}      \* registered users (lower-case wallet addresses)
Depositors == {"u1"}         \* the users who deposit (u2 only ever acts on u1's session)
Sessions == {"s1"}           \* session ids the store can hand out
Conns == <<"w1">>            \* WebSocket connections, in order of arrival
Reqs == <<"r1", "r2">>       \* POST /settle requests, in order of arrival
ConnIds == {Conns[i] : i \in 1..Len(Conns)}
ReqIds == {Reqs[i] : i \in 1..Len(Reqs)}
Mints == [i \in 1..MaxMints |-> i]   \* POST /api/ens/mint-fan-subdomain requests, in order of arrival
MintIds == {Mints[i] : i \in 1..Len(Mints)}
Starts == <<"q1", "q2">>     \* POST /start requests handled step by step, in order of arrival
StartIds == {Starts[i] : i \in 1..Len(Starts)}
Tracks == {"t1"}             \* the tracks table (one artist)
DepositReqs == <<"d1", "d2">>  \* POST /api/deposit requests handled step by step, in order of arrival
DepositIds == {DepositReqs[i] : i \in 1..Len(DepositReqs)}

VARIABLES
  beats_balance,   \* users.beats_balance, per wallet
  sessions,        \* sessions table: session_id -> row
  stream_history,  \* stream_history table: sequence of rows, in insertion order
  usdc_earned,     \* artists.usdc_earned of the (single) artist, in USDC base units
  conn,            \* per ws: "new" (not yet connected), "open", "closed"
  activeStreams,   \* Map<WS, ActiveStream>: ws -> index into streams, 0 = no entry
  streams,         \* every ActiveStream object created so far (an object outlives its map entry
                   \* while a timer closure or a suspended tickBeat holds it)
  lastMsg,         \* per ws: type of the last message the server sent on it ("none" before the first)
  timers,          \* every setInterval so far: the stream its closure holds, and whether it is still active
  reqs,            \* POST /settle requests: position and locals of each handler invocation
  debitsSinceStop, \* observer: per ws, successful debits by streams of ws since its last stop request
  fan_subdomains,  \* fan_subdomains table (one artist): sequence of rows, in insertion order
  ens_records,     \* per wallet: fan subdomain records written on-chain (setSubnodeRecord)
  mints,           \* POST /mint-fan-subdomain requests: position and locals of each invocation
  authenticated,   \* yellow.ts: ClearNode socket open, session key set and AuthVerify received
  clearNode,       \* the ClearNode WebSockets: how many are connecting, how many are open,
                   \* and how many reconnect timers (setTimeout 5000) are pending
  activeAppSessions, \* yellow.ts: per session, whether it has an app session id
  pendingRequests, \* yellow.ts: Map<requestId, {resolve, reject}>: id -> the caller whose promise it holds
  sendTimers,      \* the 15 s timeouts of sendAndWait, in the order they were set
  peerInbox,       \* per request id: messages sent to the ClearNode and not answered (yet)
  requestClock,    \* the last Date.now() value read for a request id (0: none yet)
  starts,          \* POST /start requests: position and locals of each handler invocation
  deposits,        \* POST /api/deposit requests: position and locals of each handler invocation
  chain,           \* on-chain state: the vault's deposits and artistEarnings mappings, and
                   \* the USDC token's balanceOf
  arc              \* arc.ts module state: whether walletSdk, circleWalletId and
                   \* vaultContractAddress are set (non-null)

vars == <<beats_balance, sessions, stream_history, usdc_earned, conn, activeStreams,
          streams, timers, lastMsg, reqs, debitsSinceStop, fan_subdomains,
          ens_records, mints, authenticated, clearNode, activeAppSessions, pendingRequests,
          sendTimers, peerInbox, requestClock, starts, deposits, chain, arc>>

dbVars == <<beats_balance, sessions, stream_history, usdc_earned>>
wsVars == <<conn, activeStreams, streams, timers, lastMsg>>
fanVars == <<fan_subdomains, ens_records, mints>>
chanVars == <<authenticated, clearNode, activeAppSessions, pendingRequests, sendTimers, peerInbox,
              requestClock>>

\* ---- the store's RPC functions (schema.sql, migration v2) -----------------

NoSession == [status |-> "NONE", user_wallet |-> "", total_beats_paid |-> 0]

\* credit_beats: UPDATE users SET beats_balance = beats_balance + p_beats
credit_beats(balance, p_beats) == balance + p_beats

\* debit_beat without its "AND beats_balance > 0" condition
debit_beat_unguarded(balance) == [balance |-> balance - 1, ret |-> balance - 1]

\* debit_beat: UPDATE ... SET beats_balance = beats_balance - 1 WHERE beats_balance > 0;
\* returns the new balance, -1 IF NOT FOUND
debit_beat(balance) ==
  IF balance > 0
    THEN [balance |-> balance - 1, ret |-> balance - 1]
    ELSE [balance |-> balance, ret |-> -1]

\* increment_session_payment without its "AND status = 'OPEN'" condition
increment_session_payment_anystatus(row) ==
  IF row.status # "NONE"
    THEN [row EXCEPT !.total_beats_paid = @ + 1]
    ELSE row

\* increment_session_payment: total_beats_paid + 1 WHERE status = 'OPEN'
increment_session_payment(row) ==
  IF row.status = "OPEN"
    THEN [row EXCEPT !.total_beats_paid = @ + 1]
    ELSE row

\* createSession: INSERT ... status 'OPEN', total_beats_paid DEFAULT 0
createSession(userWallet) ==
  [status |-> "OPEN", user_wallet |-> userWallet, total_beats_paid |-> 0]

\* settleSession: UPDATE sessions SET status = 'SETTLED' WHERE session_id = ...
settleSession(row) == [row EXCEPT !.status = "SETTLED"]

\* record_stream: INSERT INTO stream_history (no uniqueness on session_id)
record_stream(history, p_wallet, p_session_id, p_beats) ==
  Append(history, [user_wallet |-> p_wallet, session_id |-> p_session_id,
                   beats_paid |-> p_beats, duration_seconds |-> p_beats])

\* usdcAmount = totalBeats / BEATS_PER_USDC, kept in USDC base units
usdcAmount(totalBeats) == (totalBeats * USDC_BASE_UNITS) \div BEATS_PER_USDC

\* ---- quantities read off the state ------------------------------------------

RECURSIVE SumSeconds(_, _, _)
\* stream.secondsPlayed starts at 0 and is raised by one after each successful
\* debitBeat of a tick of that stream: the sum over the streams 1..n whose field
\* f ("sessionId" or "wallet") is v counts the successful debits made for v
SumSeconds(n, f, v) ==
  IF n = 0 THEN 0
  ELSE SumSeconds(n - 1, f, v) + (IF streams[n][f] = v THEN streams[n].secondsPlayed ELSE 0)

\* successful debits taken on behalf of session s
Debits(s) == SumSeconds(Len(streams), "sessionId", s)

\* successful debits taken from wallet w
DebitsOf(w) == SumSeconds(Len(streams), "wallet", w)

\* the active timers whose closure holds a stream of session s / of connection ws
TimersOfSession(s) ==
  {t \in 1..Len(timers) : timers[t].active /\ streams[timers[t].stream].sessionId = s}
TimersOfConn(ws) ==
  {t \in 1..Len(timers) : timers[t].active /\ streams[timers[t].stream].ws = ws}

\* ws has seen a stop request (a stop_stream that found a stream, or the socket
\* closing) and no start_stream since
StopRequested(ws) ==
  \/ conn[ws] = "closed"
  \/ activeStreams[ws] = 0 /\ \E k \in 1..Len(streams) : streams[k].ws = ws

\* ---- initial state: server started, users registered, nothing else ---------

IdleReq == [pc |-> "idle", wallet |-> "", sessionId |-> "", totalBeats |-> 0,
            success |-> FALSE, txHash |-> "null", resp |-> 0, fanSubdomain |-> "none",
            requestId |-> 0]

\* ---- the ClearNode connection (services/yellow.ts) ---------------------------
\* no socket and no timer: initYellow returned early (no YELLOW_PRIVATE_KEY), or
\* has not run
NoConnection == [connecting |-> 0, open |-> 0, reconnects |-> 0]

\* connectToClearNode: "ws = new WebSocket(wsUrl)"
connectToClearNode(c) == [c EXCEPT !.connecting = @ + 1]

\* ws.onopen
onopen(c) == [c EXCEPT !.connecting = @ - 1, !.open = @ + 1]

\* ws.onclose that schedules two reconnects
onclose_twice(c, wasOpen) ==
  [c EXCEPT !.open = IF wasOpen THEN @ - 1 ELSE @,
            !.connecting = IF wasOpen THEN @ ELSE @ - 1,
            !.reconnects = @ + 2]

\* ws.onclose: the socket is gone and "setTimeout(() => { if (serverAccount)
\* connectToClearNode() }, 5000)"
onclose(c, wasOpen) ==
  [c EXCEPT !.open = IF wasOpen THEN @ - 1 ELSE @,
            !.connecting = IF wasOpen THEN @ ELSE @ - 1,
            !.reconnects = @ + 1]

\* the connection of a server whose channel client is authenticated (the socket is
\* open) or not yet (initYellow has called connectToClearNode)
connectionWhen(auth) ==
  IF auth THEN onopen(connectToClearNode(NoConnection)) ELSE connectToClearNode(NoConnection)

\* arc.ts after initArc with the Circle keys, the wallet id and the vault address set
ArcConfigured == [walletSdk |-> TRUE, circleWalletId |-> TRUE, vaultContractAddress |-> TRUE]

\* the channel client before (or without) a ClearNode session: "let authenticated =
\* false", empty activeAppSessions and pendingRequests
ChannelDown ==
  /\ authenticated = FALSE
  /\ clearNode = NoConnection
  /\ activeAppSessions = [s \in Sessions |-> FALSE]
  /\ pendingRequests = [id \in 1..MaxRequestIds |-> "none"]
  /\ sendTimers = <<>>
  /\ peerInbox = [id \in 1..MaxRequestIds |-> 0]
  /\ requestClock = 0

\* ---- BeatStreamVault and the USDC token (on-chain) ---------------------------
\* A transaction either completes or reverts, and a reverted transaction leaves
\* the chain as it was. The contract is compiled with solidity ^0.8.20: uint256
\* arithmetic is checked, an overflow or underflow reverts. The model keeps the
\* checks and narrows the word to UintBits bits.
UINT_MAX == 2^UintBits - 1

vaultOwner == "server"      \* the vault's immutable owner: the backend's Circle wallet
vaultAddress == "vault"     \* address(this)
artistWallet == "a1"        \* wallet_address of the (single) artist
Accounts == Wallets \cup {vaultOwner, vaultAddress, artistWallet}

\* the chain right after the vault's deployment
DeployedChain ==
  [deposits |-> [a \in Accounts |-> 0],
   artistEarnings |-> [a \in Accounts |-> 0],
   balanceOf |-> [a \in Accounts |-> 0]]

\* what a transaction leaves: whether it reverted, and the chain after it
Reverted(c) == [reverted |-> TRUE, chain |-> c]
Completed(c) == [reverted |-> FALSE, chain |-> c]

\* IERC20.transfer as the token executes it for msg.sender = from: false (or a
\* revert of its own) when from's balance is short, else amount moves from -> to
transfer(balanceOf, from, to, amount) ==
  IF balanceOf[from] < amount
    THEN [ok |-> FALSE, balanceOf |-> balanceOf]
    ELSE [ok |-> TRUE,
          balanceOf |-> [a \in DOMAIN balanceOf |->
                           balanceOf[a] - (IF a = from THEN amount ELSE 0)
                                        + (IF a = to THEN amount ELSE 0)]]

\* IERC20.transferFrom called by the vault: as transfer, and it also needs
\* allowance(from, vault) >= amount
transferFrom(balanceOf, allowance, from, to, amount) ==
  IF allowance < amount
    THEN [ok |-> FALSE, balanceOf |-> balanceOf]
    ELSE transfer(balanceOf, from, to, amount)

\* deposit(uint256 usdcAmount), msg.sender = sender; amount is usdcAmount
deposit(c, sender, amount, allowance) ==
  IF ~(amount > 0) THEN Reverted(c)                       \* "Zero amount"
  ELSE LET t == transferFrom(c.balanceOf, allowance, sender, vaultAddress, amount) IN
       IF ~t.ok THEN Reverted(c)                              \* "USDC transferFrom failed"
       ELSE IF c.deposits[sender] + amount > UINT_MAX THEN Reverted(c)
       ELSE Completed([c EXCEPT !.balanceOf = t.balanceOf,
                                !.deposits[sender] = @ + amount])

\* settle without the onlyOwner modifier
settle_anyone(c, sender, artist, beatsUsed, user) ==
  IF beatsUsed * USDC_PER_BEAT > UINT_MAX THEN Reverted(c)
  ELSE LET amount == beatsUsed * USDC_PER_BEAT IN
       IF ~(c.deposits[user] >= amount) THEN Reverted(c)
       ELSE LET t == transfer(c.balanceOf, vaultAddress, artist, amount) IN
            IF c.artistEarnings[artist] + amount > UINT_MAX THEN Reverted(c)
            ELSE IF ~t.ok THEN Reverted(c)
            ELSE Completed([c EXCEPT !.deposits[user] = @ - amount,
                                     !.artistEarnings[artist] = @ + amount,
                                     !.balanceOf = t.balanceOf])

\* settle(address artist, uint256 beatsUsed, address user) external onlyOwner,
\* msg.sender = sender
settle(c, sender, artist, beatsUsed, user) ==
  IF sender # vaultOwner THEN Reverted(c)                          \* "BeatStreamVault: not owner"
  ELSE IF beatsUsed * USDC_PER_BEAT > UINT_MAX THEN Reverted(c)  \* checked multiplication
  ELSE LET amount == beatsUsed * USDC_PER_BEAT IN
       IF ~(c.deposits[user] >= amount) THEN Reverted(c)      \* "Insufficient deposit"
       ELSE LET t == transfer(c.balanceOf, vaultAddress, artist, amount) IN
            IF c.artistEarnings[artist] + amount > UINT_MAX THEN Reverted(c)
            ELSE IF ~t.ok THEN Reverted(c)                    \* "Transfer to artist failed"
            ELSE Completed([c EXCEPT !.deposits[user] = @ - amount,
                                     !.artistEarnings[artist] = @ + amount,
                                     !.balanceOf = t.balanceOf])

\* a withdraw that pays out and leaves deposits[msg.sender] as it was
withdraw_keeps(c, sender) ==
  LET amount == c.deposits[sender] IN
  IF ~(amount > 0) THEN Reverted(c)
  ELSE LET t == transfer(c.balanceOf, vaultAddress, sender, amount) IN
       IF ~t.ok THEN Reverted(c)
       ELSE Completed([c EXCEPT !.balanceOf = t.balanceOf])

\* withdraw(), msg.sender = sender
withdraw(c, sender) ==
  LET amount == c.deposits[sender] IN
  IF ~(amount > 0) THEN Reverted(c)                           \* "No deposit"
  ELSE LET t == transfer(c.balanceOf, vaultAddress, sender, amount) IN
       IF ~t.ok THEN Reverted(c)                              \* "USDC transfer failed"
       ELSE Completed([c EXCEPT !.deposits[sender] = 0, !.balanceOf = t.balanceOf])

IdleStart == [pc |-> "idle", wallet |-> "", trackId |-> "", beats_balance |-> 0,
              sessionId |-> "", yellow |-> FALSE, resp |-> 0, requestId |-> 0]

IdleDeposit == [pc |-> "idle", wallet |-> "", amount |-> 0, beatsToCredit |-> 0, resp |-> 0]

IdleMint == [pc |-> "idle", wallet |-> "", totalBeats |-> 0, result |-> "none", resp |-> 0]

Init ==
  /\ beats_balance = [w \in Wallets |-> 0]
  /\ sessions = [s \in Sessions |-> NoSession]
  /\ stream_history = <<>>
  /\ usdc_earned = 0
  /\ conn = [ws \in ConnIds |-> "new"]
  /\ activeStreams = [ws \in ConnIds |-> 0]
  /\ streams = <<>>
  /\ timers = <<>>
  /\ lastMsg = [ws \in ConnIds |-> "none"]
  /\ reqs = [r \in ReqIds |-> IdleReq]
  /\ debitsSinceStop = [ws \in ConnIds |-> 0]
  /\ fan_subdomains = <<>>
  /\ ens_records = [w \in Wallets |-> 0]
  /\ mints = [m \in MintIds |-> IdleMint]
  /\ ChannelDown
  /\ starts = [q \in StartIds |-> IdleStart]
  /\ deposits = [d \in DepositIds |-> IdleDeposit]
  /\ arc = ArcConfigured
  /\ chain = DeployedChain

\* ---- POST /api/deposit ------------------------------------------------------
\* The amount of a deposit is the decimal string of the transaction ("1.001"),
\* here a number of thousandths of a USDC, n. The route computes
\*   Math.floor(parseFloat(amount) * BEATS_PER_USDC)
\* in IEEE-754 doubles (53-bit significand, round to nearest, ties to even):
\*   parseFloat gives d = M * 2^(e-52), with 2^e <= n/1000 < 2^(e+1) and M the
\*     integer nearest to n * 2^(52-e) / 1000; writing n * 2^(52-e) = 1000*Q + R,
\*     M is Q when R < 500 and Q + 1 when R > 500 (R = 500 cannot happen: the left
\*     side is a multiple of 8), so 1000 * M = n * 2^(52-e) + delta with
\*     delta = -R or 1000 - R;
\*   d * 1000 = (n * 2^(52-e) + delta) * 2^(e-52) exactly, that is n plus delta
\*     units of 2^(e-52); the product is rounded to a double of n's binade
\*     (2^f <= n < 2^(f+1)), whose spacing is 2^(f-e) of these units, so it comes
\*     out below n exactly when delta < -2^(f-e-1) (when n is a power of two the
\*     doubles below n are spaced half as far: delta < -2^(f-e-2));
\*   Math.floor then gives n - 1 instead of n.

\* floor(log2(x)) for x >= 1
RECURSIVE Log2Floor(_)
Log2Floor(x) == IF x < 2 THEN 0 ELSE 1 + Log2Floor(x \div 2)

\* 52 - e for the double nearest to n/1000 (n >= 1): e = floor(log2(n/1000)),
\* found by halving or doubling n until it is in [1000, 2000)
RECURSIVE SignificandShift(_, _)
SignificandShift(n, sh) ==
  IF n >= 2000 THEN SignificandShift(n \div 2, sh - 1)   \* n/1000 >= 2: e grows
  ELSE IF n < 1000 THEN SignificandShift(n * 2, sh + 1)  \* n/1000 < 1: e shrinks
  ELSE sh

\* 2^k mod m
RECURSIVE PowMod(_, _)
PowMod(k, m) == IF k = 0 THEN 1 % m ELSE (2 * PowMod(k - 1, m)) % m

IsPowerOfTwo(n) == n = 2^Log2Floor(n)

\* Math.floor(parseFloat(amount) * BEATS_PER_USDC) for amount = n thousandths
beatsToCredit(n) ==
  IF n = 0 THEN 0
  ELSE LET sh == SignificandShift(n, 52)              \* 52 - e
           R == ((n % BEATS_PER_USDC) * PowMod(sh, BEATS_PER_USDC)) % BEATS_PER_USDC
           delta == IF R < 500 THEN -R ELSE BEATS_PER_USDC - R
           k == Log2Floor(n) - (52 - sh)              \* f - e
           half == IF IsPowerOfTwo(n) THEN 2^(k - 2) ELSE 2^(k - 1)
       IN IF delta < -half THEN n - 1 ELSE n

\* beatsToCredit over the amounts of the atomic deposits
beatsToCreditOf == [n \in 1..2 |-> beatsToCredit(n)]

\* The handler in one step, for a verified deposit of amountMilli thousandths of a
\* USDC (> 0); DepositBegin, DepositVerify and DepositCredit below are the same
\* handler await by await.
Deposit(wallet, amountMilli) ==
  /\ beats_balance[wallet] + DebitsOf(wallet) + beatsToCreditOf[amountMilli] <= MaxBeats
  /\ beats_balance' = [beats_balance EXCEPT ![wallet] =
                         credit_beats(@, beatsToCreditOf[amountMilli])]
  /\ UNCHANGED <<sessions, stream_history, usdc_earned, wsVars, reqs, debitsSinceStop>>
  /\ UNCHANGED <<fanVars, chanVars, starts, deposits, chain, arc>>

\* verifySig, then "await getUser(wallet)": 401 on a bad signature, 404 "User not
\* found. Register first."
DepositBegin(d, wallet, sigValid) ==
  /\ deposits[d].pc = "idle"
  /\ \A i \in 1..Len(DepositReqs) :
       DepositReqs[i] = d => \A j \in 1..(i-1) : deposits[DepositReqs[j]].pc # "idle"
  /\ deposits' = [deposits EXCEPT ![d] =
        IF ~sigValid THEN [IdleDeposit EXCEPT !.pc = "done", !.wallet = wallet, !.resp = 401]
        ELSE IF wallet \notin Wallets
          THEN [IdleDeposit EXCEPT !.pc = "done", !.wallet = wallet, !.resp = 404]
        ELSE [IdleDeposit EXCEPT !.pc = "verify", !.wallet = wallet]]
  /\ UNCHANGED <<dbVars, wsVars, reqs, debitsSinceStop, fanVars, chanVars, starts, chain, arc>>

\* verifyDeposit: "if (!walletSdk)" the verification is simulated: verified, with
\* amount 10 (USDC). Otherwise the transaction is fetched: verified with its amount
\* when its state is COMPLETE, not verified otherwise or when the call throws
verifyDeposit(a, complete, amountMilli) ==
  IF ~a.walletSdk THEN [verified |-> TRUE, amount |-> 10 * BEATS_PER_USDC]
  ELSE IF complete THEN [verified |-> TRUE, amount |-> amountMilli]
  ELSE [verified |-> FALSE, amount |-> 0]

\* "const deposit = await verifyDeposit(txHash)": verified is false for a
\* transaction that is not COMPLETE or cannot be fetched; amountMilli is the
\* transaction's amount in thousandths of a USDC. 400 "Deposit not verified or
\* still pending" when (!deposit.verified || !deposit.amount); otherwise
\* beatsToCredit is computed and creditBeats is called
DepositVerify(d, verified, amountMilli) ==
  LET verification == verifyDeposit(arc, verified, amountMilli) IN
  /\ deposits[d].pc = "verify"
  /\ deposits' = [deposits EXCEPT ![d] =
        IF ~verification.verified \/ verification.amount = 0
          THEN [@ EXCEPT !.pc = "done", !.resp = 400]
          ELSE [@ EXCEPT !.pc = "credit", !.amount = verification.amount,
                         !.beatsToCredit = beatsToCredit(verification.amount)]]
  /\ UNCHANGED <<dbVars, wsVars, reqs, debitsSinceStop, fanVars, chanVars, starts, chain, arc>>

\* "const newBalance = await creditBeats(wallet, beatsToCredit)", then the 200 answer
DepositCredit(d) ==
  /\ deposits[d].pc = "credit"
  /\ beats_balance' = [beats_balance EXCEPT ![deposits[d].wallet] =
                         credit_beats(@, deposits[d].beatsToCredit)]
  /\ deposits' = [deposits EXCEPT ![d].pc = "done", ![d].resp = 200]
  /\ UNCHANGED <<sessions, stream_history, usdc_earned, wsVars, reqs, debitsSinceStop,
                 fanVars, chanVars, starts, chain, arc>>

\* ---- POST /api/sessions/start ---------------------------------------------
\* The handler in one step, as it runs while the channel client is down
\* (openStreamSession returns null at once) and the listener has no other session
\* that a tick could debit between getUser and createSession; StartBegin,
\* StartTrack and StartCreate below are the same handler await by await.
StartSession(wallet, s) ==
  /\ sessions[s].status = "NONE"          \* the store hands out a fresh session_id
  /\ beats_balance[wallet] > 0            \* else 402 Insufficient beats
  /\ sessions' = [sessions EXCEPT ![s] = createSession(wallet)]
  /\ UNCHANGED <<beats_balance, stream_history, usdc_earned, wsVars, reqs, debitsSinceStop>>
  /\ UNCHANGED <<fanVars, chanVars, starts, deposits, chain, arc>>

\* ---- WebSocket stream handler (routes/deposit.ts, second half) ---------------

\* ws.send(JSON.stringify({type, ...})): a message sent on a socket that is no
\* longer open is dropped
Send(ws, type) == IF conn[ws] = "open" THEN [lastMsg EXCEPT ![ws] = type] ELSE lastMsg

\* clearInterval(id); clearing null or an already cleared timer does nothing
clearInterval(ts, id) == IF id = 0 THEN ts ELSE [ts EXCEPT ![id].active = FALSE]

\* setInterval(() => tickBeat(ws, stream), 1000): a new timer whose closure holds stream k
setInterval(ts, k) == Append(ts, [stream |-> k, active |-> TRUE])

\* tickBeat invocations of stream k that are suspended at an await
Inflight(k) == streams[k].fired + streams[k].debited

\* wss.on("connection")
WsConnect(ws) ==
  /\ conn[ws] = "new"
  /\ \A i \in 1..Len(Conns) : Conns[i] = ws => \A j \in 1..(i-1) : conn[Conns[j]] # "new"
  /\ conn' = [conn EXCEPT ![ws] = "open"]
  /\ UNCHANGED <<dbVars, activeStreams, streams, timers, lastMsg, reqs, debitsSinceStop>>
  /\ UNCHANGED <<fanVars, chanVars, starts, deposits, chain, arc>>

\* handleStartStream: "Invalid session" unless the session exists and belongs to
\* wallet; otherwise a new ActiveStream with its own timer replaces the map entry
\* of ws (the entry it replaces is not looked at, nor is the session's status)
StartStream(ws, s, wallet) ==
  LET k == Len(streams) + 1
      t == Len(timers) + 1
  IN
  /\ conn[ws] = "open"
  /\ IF sessions[s].status = "NONE" \/ sessions[s].user_wallet # wallet
       THEN /\ lastMsg' = Send(ws, "error")
            /\ UNCHANGED <<streams, timers, activeStreams, debitsSinceStop>>
       ELSE /\ t <= MaxTimers
            /\ streams' = Append(streams,
                 [sessionId |-> s, wallet |-> wallet, ws |-> ws, interval |-> t,
                  secondsPlayed |-> 0, totalBeatsPaid |-> sessions[s].total_beats_paid,
                  fired |-> 0, debited |-> 0])
            /\ timers' = setInterval(timers, k)
            /\ activeStreams' = [activeStreams EXCEPT ![ws] = k]
            /\ lastMsg' = Send(ws, "stream_started")
            /\ debitsSinceStop' = [debitsSinceStop EXCEPT ![ws] = 0]
  /\ UNCHANGED <<dbVars, conn, reqs>>
  /\ UNCHANGED <<fanVars, chanVars, starts, deposits, chain, arc>>

\* an active timer fires: tickBeat(ws, stream) is called and suspends at
\* "await debitBeat(stream.wallet)"
TimerFire(t) ==
  LET k == timers[t].stream IN
  /\ timers[t].active
  /\ Inflight(k) < MaxInflight
  /\ streams' = [streams EXCEPT ![k].fired = @ + 1]
  /\ UNCHANGED <<dbVars, conn, activeStreams, timers, lastMsg, reqs, debitsSinceStop>>
  /\ UNCHANGED <<fanVars, chanVars, starts, deposits, chain, arc>>

\* tickBeat: debit_beat runs in the store, then the code up to
\* "await incrementSessionPayment" (or the auto-stop branch) runs
TickDebit(k) ==
  LET st == streams[k]
      d == debit_beat(beats_balance[st.wallet])
  IN
  /\ st.fired > 0
  /\ beats_balance' = [beats_balance EXCEPT ![st.wallet] = d.balance]
  /\ IF d.ret < 0
       THEN /\ lastMsg' = Send(st.ws, "insufficient_beats")
            /\ timers' = clearInterval(timers, st.interval)
            /\ streams' = [streams EXCEPT ![k].interval = 0, ![k].fired = @ - 1]
            /\ UNCHANGED debitsSinceStop
       ELSE /\ streams' = [streams EXCEPT ![k].secondsPlayed = @ + 1,
                                          ![k].totalBeatsPaid = @ + 1,
                                          ![k].fired = @ - 1,
                                          ![k].debited = @ + 1]
            /\ debitsSinceStop' = [debitsSinceStop EXCEPT ![st.ws] =
                                     IF StopRequested(st.ws) THEN @ + 1 ELSE @]
            /\ UNCHANGED <<timers, lastMsg>>
  /\ UNCHANGED <<sessions, stream_history, usdc_earned, conn, activeStreams, reqs>>
  /\ UNCHANGED <<fanVars, chanVars, starts, deposits, chain, arc>>

\* a channel client whose entry check never fails
NotReady_never == FALSE

\* "if (!ws || !sessionSigner || !authenticated || !serverAccount) return ...", the
\* entry check of openStreamSession, updateStreamState and closeStreamSession:
\* authenticated is set by AuthVerify, which needs all the others, and cleared
\* when the socket closes
NotReady == ~authenticated

\* "const requestId = Date.now()": a later millisecond, or the same millisecond as
\* the previous request while that one is still waiting for its reply
DateNow ==
  {id \in 1..MaxRequestIds :
     \/ id = requestClock + 1
     \/ id = requestClock /\ pendingRequests[id] # "none"}

\* a channel update that is sent only once the peer has answered the earlier ones
updateStreamState_waits(s, outcome) ==
  /\ \A id \in 1..MaxRequestIds : peerInbox[id] = 0
  /\ IF ~NotReady /\ activeAppSessions[s] /\ outcome = "sent"
          /\ requestClock < MaxRequestIds
       THEN /\ requestClock' = requestClock + 1
            /\ peerInbox' = [peerInbox EXCEPT ![requestClock + 1] = @ + 1]
            /\ UNCHANGED <<authenticated, clearNode, activeAppSessions, pendingRequests, sendTimers>>
       ELSE UNCHANGED chanVars

\* the channel update of a tick: it returns false at once while the channel client
\* is not authenticated or the session has no app session; otherwise it builds the
\* message and hands it to ws.send without waiting for a reply ("sent"), or an
\* error inside is caught and it returns false ("threw"). Messages beyond
\* MaxRequestIds request ids are not tracked.
updateStreamState(s, outcome) ==
  IF ~NotReady /\ activeAppSessions[s] /\ outcome = "sent"
       /\ requestClock < MaxRequestIds
    THEN /\ requestClock' = requestClock + 1
         /\ peerInbox' = [peerInbox EXCEPT ![requestClock + 1] = @ + 1]
         /\ UNCHANGED <<authenticated, clearNode, activeAppSessions, pendingRequests, sendTimers>>
    ELSE UNCHANGED chanVars

\* tickBeat: increment_session_payment runs in the store, then the channel update
\* is called and beat_tick is sent
TickIncrement(k) ==
  LET st == streams[k] IN
  /\ st.debited > 0
  /\ sessions' = [sessions EXCEPT ![st.sessionId] = increment_session_payment(@)]
  /\ streams' = [streams EXCEPT ![k].debited = @ - 1]
  /\ \E outcome \in {"sent", "threw"} : updateStreamState(st.sessionId, outcome)
  /\ lastMsg' = Send(st.ws, "beat_tick")
  /\ UNCHANGED <<beats_balance, stream_history, usdc_earned, conn, activeStreams,
                 timers, reqs, debitsSinceStop>>
  /\ UNCHANGED <<fanVars, starts, deposits, chain, arc>>

\* handleHeartbeat; sigValid: the client signed the voucher the server rebuilds
\* from stream.secondsPlayed and stream.totalBeatsPaid with the stream's wallet
Heartbeat(ws, sigValid) ==
  LET k == activeStreams[ws] IN
  /\ conn[ws] = "open"
  /\ IF k = 0
       THEN /\ lastMsg' = Send(ws, "error")      \* "No active stream"
            /\ UNCHANGED sessions
       ELSE /\ sigValid                          \* else nothing happens
            /\ sessions[streams[k].sessionId].total_beats_paid < MaxBeats
            /\ sessions' = [sessions EXCEPT ![streams[k].sessionId] =
                              increment_session_payment(@)]
            /\ lastMsg' = Send(ws, "heartbeat_ack")
  /\ UNCHANGED <<beats_balance, stream_history, usdc_earned, conn, activeStreams,
                 streams, timers, reqs, debitsSinceStop>>
  /\ UNCHANGED <<fanVars, chanVars, starts, deposits, chain, arc>>

\* handlePauseStream
PauseStream(ws) ==
  LET k == activeStreams[ws] IN
  /\ conn[ws] = "open"
  /\ k # 0
  /\ streams[k].interval # 0
  /\ timers' = clearInterval(timers, streams[k].interval)
  /\ streams' = [streams EXCEPT ![k].interval = 0]
  /\ lastMsg' = Send(ws, "stream_paused")
  /\ UNCHANGED <<dbVars, conn, activeStreams, reqs, debitsSinceStop>>
  /\ UNCHANGED <<fanVars, chanVars, starts, deposits, chain, arc>>

\* handleResumeStream
ResumeStream(ws) ==
  LET k == activeStreams[ws] IN
  /\ conn[ws] = "open"
  /\ k # 0
  /\ streams[k].interval = 0
  /\ Len(timers) < MaxTimers
  /\ timers' = setInterval(timers, k)
  /\ streams' = [streams EXCEPT ![k].interval = Len(timers) + 1]
  /\ lastMsg' = Send(ws, "stream_resumed")
  /\ UNCHANGED <<dbVars, conn, activeStreams, reqs, debitsSinceStop>>
  /\ UNCHANGED <<fanVars, chanVars, starts, deposits, chain, arc>>

\* handleStopStream
StopStream(ws) ==
  LET k == activeStreams[ws] IN
  /\ conn[ws] = "open"
  /\ k # 0
  /\ timers' = clearInterval(timers, streams[k].interval)
  /\ lastMsg' = Send(ws, "stream_stopped")
  /\ activeStreams' = [activeStreams EXCEPT ![ws] = 0]
  /\ debitsSinceStop' = [debitsSinceStop EXCEPT ![ws] = 0]
  /\ UNCHANGED <<dbVars, conn, streams, reqs>>
  /\ UNCHANGED <<fanVars, chanVars, starts, deposits, chain, arc>>

\* ws.on("close")
WsClose(ws) ==
  LET k == activeStreams[ws] IN
  /\ conn[ws] = "open"
  /\ conn' = [conn EXCEPT ![ws] = "closed"]
  /\ timers' = IF k # 0 THEN clearInterval(timers, streams[k].interval) ELSE timers
  /\ activeStreams' = [activeStreams EXCEPT ![ws] = 0]
  /\ debitsSinceStop' = [debitsSinceStop EXCEPT ![ws] = 0]
  /\ UNCHANGED <<dbVars, streams, lastMsg, reqs>>
  /\ UNCHANGED <<fanVars, chanVars, starts, deposits, chain, arc>>

\* ---- POST /api/sessions/settle (routes/sessions.ts) --------------------------

\* settlePayment: "if (!walletSdk || !circleWalletId || !vaultContractAddress)" the
\* settlement is simulated: success with txHash 0xsim_<sessionId>, nothing sent.
\* Otherwise createContractExecutionTransaction is called: success with the
\* transaction id when it is submitted, success false when the call throws (caught)
settlePayment(a, submitted) ==
  IF ~a.walletSdk \/ ~a.circleWalletId \/ ~a.vaultContractAddress
    THEN [success |-> TRUE, txHash |-> "0xsim", sent |-> FALSE]
  ELSE IF submitted THEN [success |-> TRUE, txHash |-> "txId", sent |-> TRUE]
  ELSE [success |-> FALSE, txHash |-> "null", sent |-> FALSE]

\* ---- the channel client (services/yellow.ts) ------------------------------

\* the handler of POST /settle after "await closeStreamSession(...)" has returned
\* (its result is not looked at)
AfterClose(req) == [req EXCEPT !.pc = IF req.totalBeats > 0 THEN "pay" ELSE "mark"]

\* the checks of POST /settle without the owner check
settleChecks_noowner(row, wallet) ==
  IF row.status = "NONE" THEN 404
  ELSE IF row.status # "OPEN" THEN 400
  ELSE 0

\* the checks of POST /settle on the row getSession returned: 404 "Session not
\* found", 400 "Session already settled", 403 "Not your session", in this order;
\* 0: the checks pass
settleChecks(row, wallet) ==
  IF row.status = "NONE" THEN 404
  ELSE IF row.status # "OPEN" THEN 400
  ELSE IF row.user_wallet # wallet THEN 403
  ELSE 0

\* the handler up to and including "await getSession": 404 / 400 / 403 and the
\* handler returns, or the checks pass, totalBeats is read from the row and
\* closeStreamSession is called: it returns false at once while the channel client
\* is not authenticated or the session has no app session; otherwise it sends the
\* close message with sendAndWait (pendingRequests.set, ws.send, setTimeout)
SettleBegin(r, wallet, s) ==
  LET row == sessions[s]
      resp == settleChecks(row, wallet)
      passed == [pc |-> "close", wallet |-> wallet, sessionId |-> s,
                 totalBeats |-> row.total_beats_paid,
                 success |-> FALSE, txHash |-> "null", resp |-> 0,
                 fanSubdomain |-> "none", requestId |-> 0]
  IN
  /\ reqs[r].pc = "idle"
  /\ \A i \in 1..Len(Reqs) : Reqs[i] = r => \A j \in 1..(i-1) : reqs[Reqs[j]].pc # "idle"
  /\ IF resp # 0
       THEN /\ reqs' = [reqs EXCEPT ![r] = [IdleReq EXCEPT !.pc = "done", !.resp = resp]]
            /\ UNCHANGED chanVars
       ELSE IF NotReady \/ ~activeAppSessions[s]
         THEN /\ reqs' = [reqs EXCEPT ![r] = AfterClose(passed)]
              /\ UNCHANGED chanVars
         ELSE \E requestId \in DateNow :
                /\ reqs' = [reqs EXCEPT ![r] = [passed EXCEPT !.requestId = requestId]]
                /\ requestClock' = requestId
                /\ pendingRequests' = [pendingRequests EXCEPT ![requestId] = r]
                /\ peerInbox' = [peerInbox EXCEPT ![requestId] = @ + 1]
                /\ sendTimers' = Append(sendTimers, [owner |-> r, requestId |-> requestId])
                /\ UNCHANGED <<authenticated, clearNode, activeAppSessions>>
  /\ UNCHANGED <<dbVars, wsVars, debitsSinceStop, fanVars, starts, deposits, chain, arc>>

\* the handler of POST /start after "await openStreamSession(...)" has returned:
\* 201 with the session, and the app session id or the fallback note
AfterOpen(st, opened) == [st EXCEPT !.pc = "done", !.resp = 201, !.yellow = opened]

\* a caller waiting in sendAndWait with request id `id`: a settle request inside
\* closeStreamSession or a start request inside openStreamSession
Waiting(owner, id) ==
  \/ owner \in ReqIds /\ reqs[owner].pc = "close" /\ reqs[owner].requestId = id
  \/ owner \in StartIds /\ starts[owner].pc = "open" /\ starts[owner].requestId = id

\* what a caller does when its sendAndWait promise settles. resolved: the rest of
\* the try block runs (closeStreamSession: activeAppSessions.delete, return true;
\* openStreamSession: activeAppSessions.set, return the id); rejected: the catch
\* block returns false / null. Then the route handler goes on.
ReleasedReqs(owner) ==
  IF owner \in ReqIds THEN [reqs EXCEPT ![owner] = AfterClose(@)] ELSE reqs

ReleasedStarts(owner, resolved) ==
  IF owner \in StartIds THEN [starts EXCEPT ![owner] = AfterOpen(@, resolved)] ELSE starts

ReleasedAppSessions(owner, resolved) ==
  IF ~resolved THEN activeAppSessions
  ELSE IF owner \in ReqIds
    THEN [activeAppSessions EXCEPT ![reqs[owner].sessionId] = FALSE]
    ELSE [activeAppSessions EXCEPT ![starts[owner].sessionId] = TRUE]

\* handleClearNodeMessage for the reply to a message sent with sendAndWait: an error
\* reply rejects, a CreateAppSession / CloseAppSession reply resolves the promise
\* that pendingRequests holds under the reply's request id, and deletes the entry;
\* without an entry nothing happens
PeerReply(id, isError) ==
  LET owner == pendingRequests[id] IN
  /\ peerInbox[id] > 0
  /\ peerInbox' = [peerInbox EXCEPT ![id] = @ - 1]
  /\ IF owner = "none"
       THEN UNCHANGED <<reqs, starts, pendingRequests, activeAppSessions>>
       ELSE /\ pendingRequests' = [pendingRequests EXCEPT ![id] = "none"]
            /\ reqs' = ReleasedReqs(owner)
            /\ starts' = ReleasedStarts(owner, ~isError)
            /\ activeAppSessions' = ReleasedAppSessions(owner, ~isError)
  /\ UNCHANGED <<dbVars, wsVars, debitsSinceStop, fanVars, deposits, chain, arc, authenticated, clearNode,
                 sendTimers,
                 requestClock>>

\* the 15 s timeout of a sendAndWait call: "if (pendingRequests.has(requestId))
\* { pendingRequests.delete(requestId); reject(...) }", reject being the one of the
\* call that set this timer (rejecting an already settled promise does nothing)
SendTimeout ==
  LET tm == Head(sendTimers) IN
  /\ sendTimers # <<>>
  /\ sendTimers' = Tail(sendTimers)
  /\ IF pendingRequests[tm.requestId] = "none"
       THEN UNCHANGED <<reqs, starts, pendingRequests>>
       ELSE /\ pendingRequests' = [pendingRequests EXCEPT ![tm.requestId] = "none"]
            /\ IF Waiting(tm.owner, tm.requestId)
                 THEN /\ reqs' = ReleasedReqs(tm.owner)
                      /\ starts' = ReleasedStarts(tm.owner, FALSE)
                 ELSE UNCHANGED <<reqs, starts, deposits, chain, arc>>
  /\ UNCHANGED <<dbVars, wsVars, debitsSinceStop, fanVars, deposits, chain, arc, authenticated, clearNode,
                 activeAppSessions, peerInbox, requestClock>>

\* ws.onclose of a ClearNode socket (an open one, or one whose connection attempt
\* failed): "authenticated = false" and the reconnect is scheduled (pending
\* requests and app sessions are kept)
ClearNodeClose ==
  /\ \E wasOpen \in BOOLEAN :
       /\ IF wasOpen THEN clearNode.open > 0 ELSE clearNode.connecting > 0
       /\ clearNode' = onclose(clearNode, wasOpen)
  /\ authenticated' = FALSE
  /\ UNCHANGED <<dbVars, wsVars, reqs, debitsSinceStop, fanVars, starts, deposits, chain, arc,
                 activeAppSessions, pendingRequests, sendTimers, peerInbox, requestClock>>

\* the reconnect timer fires: "if (serverAccount) connectToClearNode()"
ReconnectTimer ==
  /\ clearNode.reconnects > 0
  /\ clearNode' = connectToClearNode([clearNode EXCEPT !.reconnects = @ - 1])
  /\ UNCHANGED <<dbVars, wsVars, reqs, debitsSinceStop, fanVars, starts, deposits, chain, arc,
                 authenticated, activeAppSessions, pendingRequests, sendTimers, peerInbox,
                 requestClock>>

\* ws.onopen: the connection is up and startAuth sends the auth request
ClearNodeOpen ==
  /\ clearNode.connecting > 0
  /\ clearNode' = onopen(clearNode)
  /\ UNCHANGED <<dbVars, wsVars, reqs, debitsSinceStop, fanVars, starts, deposits, chain, arc,
                 authenticated, activeAppSessions, pendingRequests, sendTimers, peerInbox,
                 requestClock>>

\* handleClearNodeMessage, case AuthVerify, a message of an open socket:
\* "authenticated = true"
AuthVerify ==
  /\ clearNode.open > 0
  /\ ~authenticated
  /\ authenticated' = TRUE
  /\ UNCHANGED <<dbVars, wsVars, reqs, debitsSinceStop, fanVars, starts, deposits, chain, arc,
                 clearNode, activeAppSessions, pendingRequests, sendTimers, peerInbox,
                 requestClock>>

\* ---- POST /api/sessions/start, await by await ----------------------------------

\* verifySig, then "await getUser(wallet)": 401 on a bad signature, 404 "User not
\* found", 402 "Insufficient beats" when user.beats_balance <= 0
StartBegin(q, wallet, trackId, sigValid) ==
  /\ starts[q].pc = "idle"
  /\ \A i \in 1..Len(Starts) : Starts[i] = q => \A j \in 1..(i-1) : starts[Starts[j]].pc # "idle"
  /\ starts' = [starts EXCEPT ![q] =
        IF ~sigValid THEN [IdleStart EXCEPT !.pc = "done", !.wallet = wallet, !.resp = 401]
        ELSE IF wallet \notin Wallets
          THEN [IdleStart EXCEPT !.pc = "done", !.wallet = wallet, !.resp = 404]
        ELSE IF beats_balance[wallet] <= 0
          THEN [IdleStart EXCEPT !.pc = "done", !.wallet = wallet, !.resp = 402]
        ELSE [IdleStart EXCEPT !.pc = "track", !.wallet = wallet, !.trackId = trackId,
                               !.beats_balance = beats_balance[wallet]]]
  /\ UNCHANGED <<dbVars, wsVars, reqs, debitsSinceStop, fanVars, chanVars, deposits, chain, arc>>

\* "const track = await getTrack(trackId)": 404 "Track not found"
StartTrack(q) ==
  /\ starts[q].pc = "track"
  /\ starts' = [starts EXCEPT ![q] =
        IF starts[q].trackId \notin Tracks
          THEN [@ EXCEPT !.pc = "done", !.resp = 404]
          ELSE [@ EXCEPT !.pc = "create"]]
  /\ UNCHANGED <<dbVars, wsVars, reqs, debitsSinceStop, fanVars, chanVars, deposits, chain, arc>>

\* "const session = await createSession(...)" inserts the OPEN row under a fresh
\* session_id; then openStreamSession is called: it returns null at once while the
\* channel client is not authenticated, otherwise it sends the create message with
\* sendAndWait (pendingRequests.set, ws.send, setTimeout)
StartCreate(q, s) ==
  /\ starts[q].pc = "create"
  /\ s \in DOMAIN sessions
  /\ sessions[s].status = "NONE"
  /\ sessions' = [sessions EXCEPT ![s] = createSession(starts[q].wallet)]
  /\ IF NotReady
       THEN /\ starts' = [starts EXCEPT ![q] = AfterOpen([@ EXCEPT !.sessionId = s], FALSE)]
            /\ UNCHANGED chanVars
       ELSE \E requestId \in DateNow :
              /\ starts' = [starts EXCEPT ![q].pc = "open", ![q].sessionId = s,
                                          ![q].requestId = requestId]
              /\ requestClock' = requestId
              /\ pendingRequests' = [pendingRequests EXCEPT ![requestId] = q]
              /\ peerInbox' = [peerInbox EXCEPT ![requestId] = @ + 1]
              /\ sendTimers' = Append(sendTimers, [owner |-> q, requestId |-> requestId])
              /\ UNCHANGED <<authenticated, clearNode, activeAppSessions>>
  /\ UNCHANGED <<beats_balance, stream_history, usdc_earned, wsVars, reqs,
                 debitsSinceStop, fanVars, deposits, chain, arc>>

\* creditArtistEarnings: UPDATE artists SET usdc_earned = usdc_earned + p_usdc
creditArtistEarnings(earned, usdc) == earned + usdc

\* "if (artist && totalBeats > 0) { settlement = await settlePayment(...);
\*   if (settlement.success) await creditArtistEarnings(session.artist_id, usdcAmount) }"
\* (nothing else reads or writes usdc_earned, so the two awaits are one step).
\* A submitted contract execution is the vault's settle(artist, totalBeats, user)
\* sent by the owner's wallet; it completes or reverts on the chain, and the
\* handler does not look at which ("success" is the submission).
SettlePay(r, submitted) ==
  LET settlement == settlePayment(arc, submitted) IN
  /\ reqs[r].pc = "pay"
  /\ usdc_earned' = IF settlement.success
                      THEN creditArtistEarnings(usdc_earned, usdcAmount(reqs[r].totalBeats))
                      ELSE usdc_earned
  /\ chain' = IF settlement.sent
                THEN settle(chain, vaultOwner, artistWallet, reqs[r].totalBeats, reqs[r].wallet).chain
                ELSE chain
  /\ reqs' = [reqs EXCEPT ![r].success = settlement.success, ![r].txHash = settlement.txHash,
                          ![r].pc = "mark"]
  /\ UNCHANGED <<beats_balance, sessions, stream_history, wsVars, debitsSinceStop>>
  /\ UNCHANGED <<fanVars, chanVars, starts, deposits, arc>>

\* get_fan_artist_beats: SELECT COALESCE(SUM(beats_paid), 0) FROM stream_history
\* WHERE user_wallet = p_wallet (AND artist_id = the artist)
RECURSIVE SumBeatsPaid(_, _, _)
SumBeatsPaid(history, n, p_wallet) ==
  IF n = 0 THEN 0
  ELSE SumBeatsPaid(history, n - 1, p_wallet)
       + (IF history[n].user_wallet = p_wallet THEN history[n].beats_paid ELSE 0)

get_fan_artist_beats(history, p_wallet) == SumBeatsPaid(history, Len(history), p_wallet)

\* checkFanSubdomainEligibility without the threshold
checkFanSubdomainEligibility_nothreshold(totalBeatsStreamed) ==
  totalBeatsStreamed >= 0

\* checkFanSubdomainEligibility
checkFanSubdomainEligibility(totalBeatsStreamed) ==
  totalBeatsStreamed >= FAN_SUBDOMAIN_THRESHOLD

\* getFanSubdomain: the rows of the pair (.single(): null when there is none)
getFanSubdomain(table, fanWallet) ==
  {i \in 1..Len(table) : table[i].fan_wallet = fanWallet}

\* "5. Check fan subdomain eligibility" of POST /settle: getFanArtistBeats, then
\* getFanSubdomain; both only read, and what they return only shapes the
\* fanSubdomain part of the response
fanSubdomainResponse(history, table, wallet) ==
  LET totalFanBeats == get_fan_artist_beats(history, wallet)
      fanSubdomainEligible == checkFanSubdomainEligibility(totalFanBeats)
      existingSub == getFanSubdomain(table, wallet)
  IN IF fanSubdomainEligible /\ existingSub = {} THEN "eligible"
     ELSE IF existingSub # {} THEN "claimed"
     ELSE "not_eligible"

\* "const settled = await settleSession(sessionId)"; with totalBeats = 0 recordStream
\* is skipped and the handler goes on to the eligibility reads and the response
SettleMark(r) ==
  /\ reqs[r].pc = "mark"
  /\ sessions' = [sessions EXCEPT ![reqs[r].sessionId] = settleSession(@)]
  /\ reqs' = [reqs EXCEPT ![r] =
        IF reqs[r].totalBeats > 0
          THEN [@ EXCEPT !.pc = "record"]
          ELSE [@ EXCEPT !.pc = "done", !.resp = 200,
                         !.fanSubdomain = fanSubdomainResponse(stream_history, fan_subdomains,
                                                               reqs[r].wallet)]]
  /\ UNCHANGED <<beats_balance, stream_history, usdc_earned, wsVars, debitsSinceStop>>
  /\ UNCHANGED <<fanVars, chanVars, starts, deposits, chain, arc>>

\* "if (artist && track && totalBeats > 0) try { await recordStream(...) } catch { warn }";
\* stored: the insert succeeded (a store error is caught and logged); the handler
\* then goes on to the eligibility reads and the response
SettleRecord(r, stored) ==
  /\ reqs[r].pc = "record"
  /\ stream_history' = IF stored
        THEN record_stream(stream_history, reqs[r].wallet, reqs[r].sessionId,
                           reqs[r].totalBeats)
        ELSE stream_history
  /\ reqs' = [reqs EXCEPT ![r].pc = "done",
                          ![r].resp = 200,
                          ![r].fanSubdomain = fanSubdomainResponse(stream_history', fan_subdomains,
                                                                  reqs[r].wallet)]
  /\ UNCHANGED <<beats_balance, sessions, usdc_earned, wsVars, debitsSinceStop>>
  /\ UNCHANGED <<fanVars, chanVars, starts, deposits, chain, arc>>

\* ---- POST /api/ens/mint-fan-subdomain (routes/ens.ts) -------------------------

\* createFanSubdomain without the UNIQUE(fan_wallet, artist_id) constraint
createFanSubdomain_nounique(table, fanWallet, totalBeatsStreamed) ==
  [table |-> Append(table, [fan_wallet |-> fanWallet,
                            total_beats_streamed |-> totalBeatsStreamed]),
   error |-> FALSE]

\* createFanSubdomain: INSERT INTO fan_subdomains; UNIQUE(fan_wallet, artist_id)
\* makes the insert fail (the client throws) when the pair already has a row
createFanSubdomain(table, fanWallet, totalBeatsStreamed) ==
  IF \E i \in 1..Len(table) : table[i].fan_wallet = fanWallet
    THEN [table |-> table, error |-> TRUE]
    ELSE [table |-> Append(table, [fan_wallet |-> fanWallet,
                                   total_beats_streamed |-> totalBeatsStreamed]),
          error |-> FALSE]

\* the handler up to and including "await getFanSubdomain": 401 on a bad signature,
\* 409 "Fan subdomain already minted" when the pair has a row
MintBegin(m, wallet, sigValid) ==
  LET existing == getFanSubdomain(fan_subdomains, wallet) IN
  /\ mints[m].pc = "idle"
  /\ \A i \in 1..Len(Mints) : Mints[i] = m => \A j \in 1..(i-1) : mints[Mints[j]].pc # "idle"
  /\ mints' = [mints EXCEPT ![m] =
        IF ~sigValid THEN [IdleMint EXCEPT !.pc = "done", !.wallet = wallet, !.resp = 401]
        ELSE IF existing # {}
          THEN [IdleMint EXCEPT !.pc = "done", !.wallet = wallet, !.resp = 409]
        ELSE [IdleMint EXCEPT !.pc = "beats", !.wallet = wallet]]
  /\ UNCHANGED <<dbVars, wsVars, reqs, debitsSinceStop, fan_subdomains, ens_records, chanVars, starts, deposits, chain, arc>>

\* "const totalBeats = await getFanArtistBeats(wallet, artistId)": 403 "Not eligible
\* yet" below the threshold
MintBeats(m) ==
  LET totalBeats == get_fan_artist_beats(stream_history, mints[m].wallet) IN
  /\ mints[m].pc = "beats"
  /\ mints' = [mints EXCEPT ![m] =
        IF ~checkFanSubdomainEligibility(totalBeats)
          THEN [@ EXCEPT !.pc = "done", !.totalBeats = totalBeats, !.resp = 403]
          ELSE [@ EXCEPT !.pc = "mint", !.totalBeats = totalBeats]]
  /\ UNCHANGED <<dbVars, wsVars, reqs, debitsSinceStop, fan_subdomains, ens_records, chanVars, starts, deposits, chain, arc>>

\* "const result = await mintFanSubdomain(wallet, artist.ens_name)"; outcome:
\* "minted" (setSubnodeRecord confirmed), "simulated" (ENS not configured, or the
\* contract reverted), "threw" (any other error: the route answers 500)
MintChain(m, outcome) ==
  /\ mints[m].pc = "mint"
  /\ ens_records' = IF outcome = "minted"
                      THEN [ens_records EXCEPT ![mints[m].wallet] = @ + 1]
                      ELSE ens_records
  /\ mints' = [mints EXCEPT ![m] =
        IF outcome = "threw"
          THEN [@ EXCEPT !.pc = "done", !.result = outcome, !.resp = 500]
          ELSE [@ EXCEPT !.pc = "insert", !.result = outcome]]
  /\ UNCHANGED <<dbVars, wsVars, reqs, debitsSinceStop, fan_subdomains, chanVars, starts, deposits, chain, arc>>

\* "const subdomain = await createFanSubdomain({...})": 201, or the insert throws
\* and the route's catch answers 500 "Fan subdomain minting failed"
MintInsert(m) ==
  LET ins == createFanSubdomain(fan_subdomains, mints[m].wallet, mints[m].totalBeats) IN
  /\ mints[m].pc = "insert"
  /\ fan_subdomains' = ins.table
  /\ mints' = [mints EXCEPT ![m].pc = "done",
                            ![m].resp = IF ins.error THEN 500 ELSE 201]
  /\ UNCHANGED <<dbVars, wsVars, reqs, debitsSinceStop, ens_records, chanVars, starts, deposits, chain, arc>>

\* ---- the system -----------------------------------------------------------------

Next ==
  \/ \E w \in Depositors, a \in 1..2 : Deposit(w, a)
  \/ \E w \in Wallets, s \in Sessions : StartSession(w, s)
  \/ \E ws \in ConnIds : WsConnect(ws)
  \/ \E ws \in ConnIds, s \in Sessions, w \in Wallets : StartStream(ws, s, w)
  \/ \E t \in 1..Len(timers) : TimerFire(t)
  \/ \E k \in 1..Len(streams) : TickDebit(k)
  \/ \E k \in 1..Len(streams) : TickIncrement(k)
  \/ \E ws \in ConnIds, v \in BOOLEAN : Heartbeat(ws, v)
  \/ \E ws \in ConnIds : PauseStream(ws)
  \/ \E ws \in ConnIds : ResumeStream(ws)
  \/ \E ws \in ConnIds : StopStream(ws)
  \/ \E ws \in ConnIds : WsClose(ws)
  \/ \E r \in ReqIds, w \in Wallets, s \in Sessions : SettleBegin(r, w, s)
  \/ \E r \in ReqIds, ok \in BOOLEAN : SettlePay(r, ok)
  \/ \E r \in ReqIds : SettleMark(r)
  \/ \E r \in ReqIds, ok \in BOOLEAN : SettleRecord(r, ok)

Spec == Init /\ [][Next]_vars

\* The ledger and the metering loops alone: every operation that reads or writes
\* users.beats_balance, without the settle requests (which never touch it)
NextMeter ==
  \/ \E w \in Depositors, a \in 1..2 : Deposit(w, a)
  \/ \E w \in Wallets, s \in Sessions : StartSession(w, s)
  \/ \E ws \in ConnIds : WsConnect(ws)
  \/ \E ws \in ConnIds, s \in Sessions, w \in Wallets : StartStream(ws, s, w)
  \/ \E t \in 1..Len(timers) : TimerFire(t)
  \/ \E k \in 1..Len(streams) : TickDebit(k)
  \/ \E k \in 1..Len(streams) : TickIncrement(k)
  \/ \E ws \in ConnIds, v \in BOOLEAN : Heartbeat(ws, v)
  \/ \E ws \in ConnIds : PauseStream(ws)
  \/ \E ws \in ConnIds : ResumeStream(ws)
  \/ \E ws \in ConnIds : StopStream(ws)
  \/ \E ws \in ConnIds : WsClose(ws)

SpecMeter == Init /\ [][NextMeter]_vars

\* ---- what the settle requests have done so far, read off their positions --------

\* the requests that passed the 404 / 400 / 403 checks for session s
Passed(s) == {r \in ReqIds : reqs[r].sessionId = s /\ reqs[r].pc # "idle"}

\* the requests for s that have called settlePayment / had creditArtistEarnings
\* applied / have called recordStream
CalledSettlePayment(s) ==
  {r \in Passed(s) : reqs[r].totalBeats > 0 /\ reqs[r].pc \in {"mark", "record", "done"}}
Credited(s) == {r \in CalledSettlePayment(s) : reqs[r].success}
CalledRecordStream(s) == {r \in Passed(s) : reqs[r].totalBeats > 0 /\ reqs[r].pc = "done"}

\* the stream_history rows of session s
HistoryRows(s) == {i \in 1..Len(stream_history) : stream_history[i].session_id = s}

\* ---- claims ------------------------------------------------------------------------

\* C1: for every session at most one close trigger passes the status = OPEN check,
\* so settlePayment is called at most once, creditArtistEarnings is applied at most
\* once and recordStream is called at most once for it.
C1_CloseEnteredAtMostOnce ==
  \A s \in Sessions :
    /\ Cardinality(Passed(s)) <= 1
    /\ Cardinality(CalledSettlePayment(s)) <= 1
    /\ Cardinality(Credited(s)) <= 1
    /\ Cardinality(CalledRecordStream(s)) <= 1

\* C2: at the moment a session is settled its total_beats_paid equals the number of
\* successful debitBeat calls made on its behalf.
C2_ConsumedEqualsDebits ==
  [][\A s \in Sessions :
       (sessions[s].status = "OPEN" /\ sessions'[s].status = "SETTLED")
         => sessions'[s].total_beats_paid = Debits(s)']_vars

\* C3: beats_balance is never negative, and a debit on a zero balance is rejected
\* (debit_beat returns -1) and changes nothing: no balance, no session row, and the
\* tick that asked for it counts no second played and asks for no increment.
C3_BalanceNonNegative == \A w \in Wallets : beats_balance[w] >= 0

C3_DebitOnZeroRejected ==
  \A k \in 1..Len(streams) :
    (streams'[k].fired < streams[k].fired /\ beats_balance[streams[k].wallet] = 0)
      => /\ debit_beat(beats_balance[streams[k].wallet]).ret = -1
         /\ beats_balance' = beats_balance
         /\ sessions' = sessions
         /\ streams'[k].secondsPlayed = streams[k].secondsPlayed
         /\ streams'[k].debited = streams[k].debited

C4_NoDebitAfterClose ==
  [][\A s \in Sessions :
       sessions[s].status \in {"SETTLED", "DISPUTED"}
         => /\ Debits(s)' = Debits(s)
            /\ TimersOfSession(s)' \subseteq TimersOfSession(s)]_vars

\* C5: after a stop request on a connection at most one further debit is taken
\* through it and no timer created for it remains active.
C5_StopBoundsMetering ==
  \A ws \in ConnIds :
    StopRequested(ws) => /\ TimersOfConn(ws) = {}
                         /\ debitsSinceStop[ws] <= 1

\* C6: a session is SETTLED only if its custodial settlement succeeded or its
\* credits_consumed is 0.
C6_SettledOnlyIfPaid ==
  \A s \in Sessions :
    sessions[s].status = "SETTLED"
      => \/ sessions[s].total_beats_paid = 0
         \/ Credited(s) # {}

\* C7: there is at most one stream_history row per session_id.
C7_OneHistoryRowPerSession ==
  \A s \in Sessions : Cardinality(HistoryRows(s)) <= 1

\* C8: every SETTLED session has exactly one stream_history row, whose beats_paid
\* equals the session's total_beats_paid.
C8_SettledHasHistoryRow ==
  \A s \in Sessions :
    sessions[s].status = "SETTLED"
      => /\ Cardinality(HistoryRows(s)) = 1
         /\ \A i \in HistoryRows(s) :
              stream_history[i].beats_paid = sessions[s].total_beats_paid

\* C9: between the moment a settle request reads total_beats_paid and the moment it
\* marks the session SETTLED, no tick debits the listener or increments
\* total_beats_paid for that session.
C9_NoTickDuringSettle ==
  [][\A r \in ReqIds :
       reqs[r].pc \in {"pay", "mark"}
         => \A k \in 1..Len(streams) :
              streams[k].sessionId = reqs[r].sessionId
                => /\ streams'[k].secondsPlayed = streams[k].secondsPlayed
                   /\ streams'[k].debited >= streams[k].debited]_vars

\* C10: at any time at most one active timer debits on behalf of a session.
C10_OneTimerPerSession ==
  \A s \in Sessions : Cardinality(TimersOfSession(s)) <= 1

\* the server has nothing left to do by itself: no timer is active, no tickBeat is
\* suspended at an await and no settle handler is between two awaits (only a new
\* client request or message can make it move)
ServerQuiet ==
  /\ \A t \in 1..Len(timers) : ~timers[t].active
  /\ \A k \in 1..Len(streams) : Inflight(k) = 0
  /\ \A r \in ReqIds : reqs[r].pc \in {"idle", "done"}

\* C11: within one session ticks never overlap: at most one tickBeat invocation of
\* the session is between its start and the commit of its increment at any time.
C11_TicksNeverOverlap ==
  \A k1, k2 \in 1..Len(streams) :
    streams[k1].sessionId = streams[k2].sessionId
      => IF k1 = k2 THEN Inflight(k1) <= 1 ELSE Inflight(k1) + Inflight(k2) <= 1

\* C12: when a tick's debit fails on a zero balance the loop emits insufficient_beats,
\* stops and hands the session to the settlement sequence by itself: once the server
\* has come to rest after the exhausted event, without any settle request from the
\* client, the session is no longer OPEN.
C12_ExhaustionClosesSession ==
  \A k \in 1..Len(streams) :
    ( /\ lastMsg[streams[k].ws] = "insufficient_beats"
      /\ activeStreams[streams[k].ws] = k
      /\ streams[k].secondsPlayed >= 1
      /\ ServerQuiet
      /\ \A r \in ReqIds : reqs[r].pc = "idle" )
      => sessions[streams[k].sessionId].status # "OPEN"

\* C13: no session stays OPEN forever: once the client that streamed a session has
\* disconnected and the server has come to rest, the session is SETTLED or DISPUTED,
\* also when the client never called settle.
C13_NoSessionStaysOpen ==
  \A k \in 1..Len(streams) :
    ( /\ conn[streams[k].ws] = "closed"
      /\ ServerQuiet )
      => sessions[streams[k].sessionId].status \in {"SETTLED", "DISPUTED"}

\* C15: a transient failure of the settlement service is retried: a close that has
\* completed for a session with credits consumed ends with the creator's earnings
\* credited exactly once, with the amount of its credits_consumed.
C15_TransientFailureRetried ==
  \A r \in ReqIds :
    ( /\ reqs[r].pc = "done"
      /\ reqs[r].resp = 200
      /\ reqs[r].totalBeats > 0
      /\ Cardinality(Passed(reqs[r].sessionId)) = 1 )
      => usdc_earned = usdcAmount(reqs[r].totalBeats)

\* ---- stop, then settle (scripts/e2e-test.ts, steps 7 and 8) ---------------------
\* The listener holds some beats, starts one session and sends start_stream once;
\* it sends stop_stream right after receiving a beat_tick and POSTs /settle only
\* after the stream was stopped.  No heartbeat, pause or deposit in between.
MaxStopBeats == 2

InitStopSettle ==
  /\ \E b \in 1..MaxStopBeats :
       beats_balance = [w \in Wallets |-> IF w \in Depositors THEN b ELSE 0]
  /\ sessions = [s \in Sessions |-> NoSession]
  /\ stream_history = <<>>
  /\ usdc_earned = 0
  /\ conn = [ws \in ConnIds |-> "new"]
  /\ activeStreams = [ws \in ConnIds |-> 0]
  /\ streams = <<>>
  /\ timers = <<>>
  /\ lastMsg = [ws \in ConnIds |-> "none"]
  /\ reqs = [r \in ReqIds |-> IdleReq]
  /\ debitsSinceStop = [ws \in ConnIds |-> 0]
  /\ fan_subdomains = <<>>
  /\ ens_records = [w \in Wallets |-> 0]
  /\ mints = [m \in MintIds |-> IdleMint]
  /\ ChannelDown
  /\ starts = [q \in StartIds |-> IdleStart]
  /\ deposits = [d \in DepositIds |-> IdleDeposit]
  /\ arc = ArcConfigured
  /\ chain = DeployedChain

NextStopSettle ==
  \/ \E w \in Depositors, s \in Sessions : StartSession(w, s)
  \/ \E ws \in ConnIds : WsConnect(ws)
  \/ \E ws \in ConnIds, s \in Sessions, w \in Depositors :
       Len(streams) = 0 /\ StartStream(ws, s, w)
  \/ \E t \in 1..Len(timers) : TimerFire(t)
  \/ \E k \in 1..Len(streams) : TickDebit(k)
  \/ \E k \in 1..Len(streams) : TickIncrement(k)
  \/ \E ws \in ConnIds : lastMsg[ws] = "beat_tick" /\ StopStream(ws)
  \/ \E r \in ReqIds, w \in Depositors, s \in Sessions :
       /\ \E k \in 1..Len(streams) : streams[k].sessionId = s /\ StopRequested(streams[k].ws)
       /\ SettleBegin(r, w, s)
  \/ \E r \in ReqIds, ok \in BOOLEAN : SettlePay(r, ok)
  \/ \E r \in ReqIds : SettleMark(r)
  \/ \E r \in ReqIds, ok \in BOOLEAN : SettleRecord(r, ok)

SpecStopSettle == InitStopSettle /\ [][NextStopSettle]_vars

\* C14: the listener stops after the N-th beat_tick and then settles: the settle
\* request reads credits_consumed = N and succeeds, and the listener's balance has
\* gone down by exactly N, so the total it reads equals the debits taken for the
\* session and no debit is taken after the stop.
C14_StopThenSettleReportsN ==
  \A r \in ReqIds, k \in 1..Len(streams) :
    (reqs[r].pc # "idle" /\ reqs[r].sessionId = streams[k].sessionId)
      => /\ reqs[r].totalBeats = Debits(streams[k].sessionId)
         /\ debitsSinceStop[streams[k].ws] = 0
         /\ reqs[r].pc = "done" => reqs[r].resp = 200

\* ---- closing sessions and fan subdomains ---------------------------------------
\* The listener u1 has streamed before (one stream_history row of an earlier
\* session "s0" of theirs, unless they are new) and holds an OPEN session that has
\* consumed some beats; settle requests and mint requests then arrive in any order.
PriorBeats == {0, 97, 100}
SessionBeats == {0, 3, 5}

InitFan ==
  /\ beats_balance = [w \in Wallets |-> 0]
  /\ \E b \in SessionBeats :
       sessions = [s \in Sessions |-> [createSession("u1") EXCEPT !.total_beats_paid = b]]
  /\ \E p \in PriorBeats :
       stream_history = IF p = 0 THEN <<>> ELSE record_stream(<<>>, "u1", "s0", p)
  /\ usdc_earned = 0
  /\ conn = [ws \in ConnIds |-> "new"]
  /\ activeStreams = [ws \in ConnIds |-> 0]
  /\ streams = <<>>
  /\ timers = <<>>
  /\ lastMsg = [ws \in ConnIds |-> "none"]
  /\ reqs = [r \in ReqIds |-> IdleReq]
  /\ debitsSinceStop = [ws \in ConnIds |-> 0]
  /\ fan_subdomains = <<>>
  /\ ens_records = [w \in Wallets |-> 0]
  /\ mints = [m \in MintIds |-> IdleMint]
  /\ ChannelDown
  /\ starts = [q \in StartIds |-> IdleStart]
  /\ deposits = [d \in DepositIds |-> IdleDeposit]
  /\ arc = ArcConfigured
  /\ chain = DeployedChain

NextFan ==
  \/ \E r \in ReqIds, w \in Wallets, s \in Sessions : SettleBegin(r, w, s)
  \/ \E r \in ReqIds, ok \in BOOLEAN : SettlePay(r, ok)
  \/ \E r \in ReqIds : SettleMark(r)
  \/ \E r \in ReqIds, ok \in BOOLEAN : SettleRecord(r, ok)
  \/ \E m \in MintIds, w \in Wallets, v \in BOOLEAN : MintBegin(m, w, v)
  \/ \E m \in MintIds : MintBeats(m)
  \/ \E m \in MintIds, o \in {"minted", "simulated", "threw"} : MintChain(m, o)
  \/ \E m \in MintIds : MintInsert(m)

SpecFan == InitFan /\ [][NextFan]_vars

\* the history total a pair should have: what its earlier sessions left in
\* stream_history plus total_beats_paid of each of its SETTLED sessions, once
RECURSIVE SumSettled(_, _)
SumSettled(S, w) ==
  IF S = {} THEN 0
  ELSE LET s == CHOOSE x \in S : TRUE IN
       SumSettled(S \ {s}, w)
       + (IF sessions[s].status = "SETTLED" /\ sessions[s].user_wallet = w
            THEN sessions[s].total_beats_paid ELSE 0)

RECURSIVE SumPrior(_, _)
SumPrior(n, w) ==
  IF n = 0 THEN 0
  ELSE SumPrior(n - 1, w)
       + (IF stream_history[n].user_wallet = w /\ stream_history[n].session_id \notin Sessions
            THEN stream_history[n].beats_paid ELSE 0)

SettledTotal(w) == SumPrior(Len(stream_history), w) + SumSettled(Sessions, w)

\* C17: every (listener, creator) pair has at most one fan_subdomains row, for any
\* number and interleaving of settle-time eligibility checks and mint requests.
C17_OneGrantPerPair ==
  \A w \in Wallets : Cardinality(getFanSubdomain(fan_subdomains, w)) <= 1

\* C17 witness: two mint requests of the same listener both passed the "already
\* minted" check and both reached the insert; one row was stored, the other insert
\* was refused
C17_Witness ==
  \E m1, m2 \in MintIds :
    /\ m1 # m2
    /\ mints[m1].wallet = mints[m2].wallet
    /\ mints[m1].pc = "done" /\ mints[m1].resp = 201
    /\ mints[m2].pc = "done" /\ mints[m2].resp = 500 /\ mints[m2].result # "threw"
    /\ Cardinality(getFanSubdomain(fan_subdomains, mints[m1].wallet)) = 1

\* C18: when a completed settle has raised the pair's history total from below the
\* threshold to at or above it, exactly one fan_subdomains row of the pair exists,
\* without any further request; while the total is below the threshold none exists.
C18_GrantCreatedAtSettle ==
  \A r \in ReqIds :
    (reqs[r].pc = "done" /\ reqs[r].resp = 200)
      => LET w == reqs[r].wallet
             total == get_fan_artist_beats(stream_history, w)
             rows == getFanSubdomain(fan_subdomains, w)
         IN /\ ( /\ HistoryRows(reqs[r].sessionId) # {}
                 /\ total >= FAN_SUBDOMAIN_THRESHOLD
                 /\ total - reqs[r].totalBeats < FAN_SUBDOMAIN_THRESHOLD )
                 => Cardinality(rows) = 1
            /\ total < FAN_SUBDOMAIN_THRESHOLD => rows = {}

\* C19: a mint request that meets an existing grant of its pair (at the "already
\* minted" check, or at the insert as the loser of two concurrent requests) is
\* answered with success, not with an error.
C19_DuplicateGrantIsSuccess ==
  \A m \in MintIds :
    ( /\ mints[m].pc = "done"
      /\ getFanSubdomain(fan_subdomains, mints[m].wallet) # {}
      /\ mints[m].resp \notin {401, 403}
      /\ mints[m].result # "threw" )
      => mints[m].resp \in {200, 201}

\* C20: the total used for eligibility equals the sum of credits_consumed over the
\* pair's settled sessions, each counted once (read when no close is under way),
\* and a mint request goes on exactly when the total it read is >= the threshold.
C20_LoyaltyTotalIsSettledSum ==
  /\ (\A r \in ReqIds : reqs[r].pc \in {"idle", "done"})
       => \A w \in Wallets : get_fan_artist_beats(stream_history, w) = SettledTotal(w)
  /\ \A m \in MintIds :
       /\ mints[m].pc \in {"mint", "insert"} => mints[m].totalBeats >= FAN_SUBDOMAIN_THRESHOLD
       /\ mints[m].resp = 403 => mints[m].totalBeats < FAN_SUBDOMAIN_THRESHOLD

\* ---- closing a session with the channel client in any condition -----------------
\* The ClearNode session is up or not, the session's app session was opened or not;
\* the peer answers a close message with a reply, with an error, or not at all.
InitChannel ==
  /\ beats_balance = [w \in Wallets |-> 0]
  /\ \E b \in {0, 1} :
       sessions = [s \in Sessions |-> [createSession("u1") EXCEPT !.total_beats_paid = b]]
  /\ stream_history = <<>>
  /\ usdc_earned = 0
  /\ conn = [ws \in ConnIds |-> "new"]
  /\ activeStreams = [ws \in ConnIds |-> 0]
  /\ streams = <<>>
  /\ timers = <<>>
  /\ lastMsg = [ws \in ConnIds |-> "none"]
  /\ reqs = [r \in ReqIds |-> IdleReq]
  /\ debitsSinceStop = [ws \in ConnIds |-> 0]
  /\ fan_subdomains = <<>>
  /\ ens_records = [w \in Wallets |-> 0]
  /\ mints = [m \in MintIds |-> IdleMint]
  /\ authenticated \in BOOLEAN
  /\ clearNode = connectionWhen(authenticated)
  /\ activeAppSessions \in [Sessions -> BOOLEAN]
  /\ pendingRequests = [id \in 1..MaxRequestIds |-> "none"]
  /\ sendTimers = <<>>
  /\ peerInbox = [id \in 1..MaxRequestIds |-> 0]
  /\ requestClock = 0
  /\ starts = [q \in StartIds |-> IdleStart]
  /\ deposits = [d \in DepositIds |-> IdleDeposit]
  /\ arc = ArcConfigured
  /\ chain = DeployedChain

NextChannel ==
  \/ \E r \in ReqIds, w \in Wallets, s \in Sessions : SettleBegin(r, w, s)
  \/ \E id \in 1..MaxRequestIds, e \in BOOLEAN : PeerReply(id, e)
  \/ SendTimeout
  \/ \E r \in ReqIds, ok \in BOOLEAN : SettlePay(r, ok)
  \/ \E r \in ReqIds : SettleMark(r)
  \/ \E r \in ReqIds, ok \in BOOLEAN : SettleRecord(r, ok)

SpecChannel == InitChannel /\ [][NextChannel]_vars

\* C16: closing a session does not depend on the channel peer: whatever the peer
\* does (answers, answers with an error, never answers, was never opened), a settle
\* request that waits for the channel close is always released again, by the reply
\* or by its timeout, and so completes as it does without a channel.
C16_SettleIndependentOfPeer ==
  \A r \in ReqIds :
    reqs[r].pc = "close"
      => /\ pendingRequests[reqs[r].requestId] # "none"
         /\ \/ pendingRequests[reqs[r].requestId] = r
            \/ \E i \in 1..Len(sendTimers) :
                 sendTimers[i] = [owner |-> r, requestId |-> reqs[r].requestId]

\* C21: a fan subdomain is granted only at 100+ beats of history: every
\* fan_subdomains row stores a total of at least 100 that the pair's history total
\* had reached when the row was written, a mint request that reads a total below
\* the threshold is answered 403 without minting, and a pair whose history total is
\* below the threshold has no row and nothing minted on chain.
C21_GrantOnlyAtThreshold ==
  /\ \A i \in 1..Len(fan_subdomains) :
       /\ fan_subdomains[i].total_beats_streamed >= FAN_SUBDOMAIN_THRESHOLD
       /\ get_fan_artist_beats(stream_history, fan_subdomains[i].fan_wallet)
            >= fan_subdomains[i].total_beats_streamed
  /\ \A m \in MintIds :
       /\ mints[m].pc \in {"mint", "insert"} \/ mints[m].result # "none"
            => mints[m].totalBeats >= FAN_SUBDOMAIN_THRESHOLD
       /\ mints[m].resp = 201 => mints[m].totalBeats >= FAN_SUBDOMAIN_THRESHOLD
  /\ \A w \in Wallets :
       get_fan_artist_beats(stream_history, w) < FAN_SUBDOMAIN_THRESHOLD
         => getFanSubdomain(fan_subdomains, w) = {} /\ ens_records[w] = 0

\* C21 witness: one mint request of a listener was rejected with 403 below the
\* threshold, minting nothing; after a settle raised the history total another was
\* answered 201 and its row stored
C21_Witness ==
  \E m1, m2 \in MintIds :
    /\ mints[m1].wallet = mints[m2].wallet
    /\ mints[m1].pc = "done" /\ mints[m1].resp = 403 /\ mints[m1].result = "none"
    /\ mints[m1].totalBeats < FAN_SUBDOMAIN_THRESHOLD
    /\ mints[m2].pc = "done" /\ mints[m2].resp = 201
    /\ getFanSubdomain(fan_subdomains, mints[m2].wallet) # {}

\* ---- starting sessions while another session of the listener is metered ---------
\* Two start requests, two session ids the store can hand out, the channel client
\* authenticated or not, a listener with one beat and one without, a registered and
\* an unregistered wallet, an existing and a missing track.
StartSessions == Sessions \cup {"s2"}
StartWallets == Wallets \cup {"u0"}      \* u0: no users row
StartTracks == Tracks \cup {"t0"}        \* t0: no tracks row

InitStart ==
  /\ beats_balance = [w \in Wallets |-> IF w \in Depositors THEN MaxBeats ELSE 0]
  /\ sessions = [s \in StartSessions |-> NoSession]
  /\ stream_history = <<>>
  /\ usdc_earned = 0
  /\ conn = [ws \in ConnIds |-> "new"]
  /\ activeStreams = [ws \in ConnIds |-> 0]
  /\ streams = <<>>
  /\ timers = <<>>
  /\ lastMsg = [ws \in ConnIds |-> "none"]
  /\ reqs = [r \in ReqIds |-> IdleReq]
  /\ debitsSinceStop = [ws \in ConnIds |-> 0]
  /\ fan_subdomains = <<>>
  /\ ens_records = [w \in Wallets |-> 0]
  /\ mints = [m \in MintIds |-> IdleMint]
  /\ authenticated \in BOOLEAN
  /\ clearNode = connectionWhen(authenticated)
  /\ activeAppSessions = [s \in StartSessions |-> FALSE]
  /\ pendingRequests = [id \in 1..MaxRequestIds |-> "none"]
  /\ sendTimers = <<>>
  /\ peerInbox = [id \in 1..MaxRequestIds |-> 0]
  /\ requestClock = 0
  /\ starts = [q \in StartIds |-> IdleStart]
  /\ deposits = [d \in DepositIds |-> IdleDeposit]
  /\ arc = ArcConfigured
  /\ chain = DeployedChain

NextStart ==
  \/ \E q \in StartIds, w \in StartWallets, tr \in StartTracks, v \in BOOLEAN :
       StartBegin(q, w, tr, v)
  \/ \E q \in StartIds : StartTrack(q)
  \/ \E q \in StartIds, s \in StartSessions : StartCreate(q, s)
  \/ \E id \in 1..MaxRequestIds, e \in BOOLEAN : PeerReply(id, e)
  \/ SendTimeout
  \/ \E ws \in ConnIds : WsConnect(ws)
  \/ \E ws \in ConnIds, s \in StartSessions, w \in Depositors : StartStream(ws, s, w)
  \/ \E t \in 1..Len(timers) : TimerFire(t)
  \/ \E k \in 1..Len(streams) : TickDebit(k)
  \/ \E k \in 1..Len(streams) : TickIncrement(k)

SpecStart == InitStart /\ [][NextStart]_vars

\* C22: StartSession inserts an OPEN session row only if the listener exists with
\* balance > 0 and the track exists; a start request that fails with 402 or 404
\* inserts no session row and sends nothing to the channel peer.
C22_StartOnlyWithBalanceAndTrack ==
  [][/\ \A s \in DOMAIN sessions :
          sessions[s].status = "NONE" /\ sessions'[s].status = "OPEN"
            => /\ sessions'[s].user_wallet \in Wallets
               /\ beats_balance[sessions'[s].user_wallet] > 0
               /\ \E q \in StartIds : starts[q].pc = "create" /\ starts[q].trackId \in Tracks
     /\ \A q \in StartIds :
          starts[q].resp = 0 /\ starts'[q].resp \in {402, 404}
            => sessions' = sessions /\ peerInbox' = peerInbox
                 /\ activeAppSessions' = activeAppSessions]_vars

\* ---- settle requests against an OPEN and an already settled session -------------
\* u1 has an OPEN session s1 with one beat paid and a SETTLED session s2; u1 and u2
\* send settle requests for either; the channel client is authenticated or not and
\* s1 has an app session or not.
InitSettleChecks ==
  /\ beats_balance = [w \in Wallets |-> 0]
  /\ sessions = [s \in StartSessions |->
                   IF s \in Sessions
                     THEN [createSession("u1") EXCEPT !.total_beats_paid = 1]
                     ELSE settleSession([createSession("u1") EXCEPT !.total_beats_paid = 1])]
  /\ stream_history = record_stream(<<>>, "u1", "s2", 1)
  /\ usdc_earned = usdcAmount(1)
  /\ conn = [ws \in ConnIds |-> "new"]
  /\ activeStreams = [ws \in ConnIds |-> 0]
  /\ streams = <<>>
  /\ timers = <<>>
  /\ lastMsg = [ws \in ConnIds |-> "none"]
  /\ reqs = [r \in ReqIds |-> IdleReq]
  /\ debitsSinceStop = [ws \in ConnIds |-> 0]
  /\ fan_subdomains = <<>>
  /\ ens_records = [w \in Wallets |-> 0]
  /\ mints = [m \in MintIds |-> IdleMint]
  /\ authenticated \in BOOLEAN
  /\ clearNode = connectionWhen(authenticated)
  /\ activeAppSessions \in [StartSessions -> BOOLEAN]
  /\ pendingRequests = [id \in 1..MaxRequestIds |-> "none"]
  /\ sendTimers = <<>>
  /\ peerInbox = [id \in 1..MaxRequestIds |-> 0]
  /\ requestClock = 0
  /\ starts = [q \in StartIds |-> IdleStart]
  /\ deposits = [d \in DepositIds |-> IdleDeposit]
  /\ arc = ArcConfigured
  /\ chain = DeployedChain

NextSettleChecks ==
  \/ \E r \in ReqIds, w \in Wallets, s \in StartSessions : SettleBegin(r, w, s)
  \/ \E id \in 1..MaxRequestIds, e \in BOOLEAN : PeerReply(id, e)
  \/ SendTimeout
  \/ \E r \in ReqIds, ok \in BOOLEAN : SettlePay(r, ok)
  \/ \E r \in ReqIds : SettleMark(r)
  \/ \E r \in ReqIds, ok \in BOOLEAN : SettleRecord(r, ok)

SpecSettleChecks == InitSettleChecks /\ [][NextSettleChecks]_vars

C24_StartIndependentOfPeer ==
  \A q \in StartIds :
    /\ starts[q].sessionId # ""
         => /\ sessions[starts[q].sessionId].status # "NONE"
            /\ sessions[starts[q].sessionId].user_wallet = starts[q].wallet
            /\ starts[q].resp \in {0, 201}
    /\ starts[q].pc = "open"
         => /\ pendingRequests[starts[q].requestId] # "none"
            /\ \/ pendingRequests[starts[q].requestId] = q
               \/ \E i \in 1..Len(sendTimers) :
                    sendTimers[i] = [owner |-> q, requestId |-> starts[q].requestId]

\* ---- two sessions metered while the channel peer is slow, silent or failing ------
\* u1 has two OPEN sessions and TickBeats beats; the channel client is authenticated
\* or not and each session has an app session or not; the peer answers an update
\* late or never, or the update fails.
TickBeats == 2

InitTickChannel ==
  /\ beats_balance = [w \in Wallets |-> IF w \in Depositors THEN TickBeats ELSE 0]
  /\ sessions = [s \in StartSessions |-> createSession("u1")]
  /\ stream_history = <<>>
  /\ usdc_earned = 0
  /\ conn = [ws \in ConnIds |-> "new"]
  /\ activeStreams = [ws \in ConnIds |-> 0]
  /\ streams = <<>>
  /\ timers = <<>>
  /\ lastMsg = [ws \in ConnIds |-> "none"]
  /\ reqs = [r \in ReqIds |-> IdleReq]
  /\ debitsSinceStop = [ws \in ConnIds |-> 0]
  /\ fan_subdomains = <<>>
  /\ ens_records = [w \in Wallets |-> 0]
  /\ mints = [m \in MintIds |-> IdleMint]
  /\ authenticated \in BOOLEAN
  /\ clearNode = connectionWhen(authenticated)
  /\ activeAppSessions \in [StartSessions -> BOOLEAN]
  /\ pendingRequests = [id \in 1..MaxRequestIds |-> "none"]
  /\ sendTimers = <<>>
  /\ peerInbox = [id \in 1..MaxRequestIds |-> 0]
  /\ requestClock = 0
  /\ starts = [q \in StartIds |-> IdleStart]
  /\ deposits = [d \in DepositIds |-> IdleDeposit]
  /\ arc = ArcConfigured
  /\ chain = DeployedChain

NextTickChannel ==
  \/ \E ws \in ConnIds : WsConnect(ws)
  \/ \E ws \in ConnIds, s \in StartSessions, w \in Depositors : StartStream(ws, s, w)
  \/ \E t \in 1..Len(timers) : TimerFire(t)
  \/ \E k \in 1..Len(streams) : TickDebit(k)
  \/ \E k \in 1..Len(streams) : TickIncrement(k)
  \/ \E id \in 1..MaxRequestIds, e \in BOOLEAN : PeerReply(id, e)

SpecTickChannel == InitTickChannel /\ [][NextTickChannel]_vars

\* C25: whatever the channel client and its peer do, a tick that is due can run:
\* the debit of a fired tick and the increment of a debited tick are enabled for
\* every stream, whatever another session's channel update does; and the tick's
\* debit takes one beat from a positive balance, its increment raises
\* total_beats_paid of its OPEN session by one and beat_tick is sent on its open
\* socket.
C25_ChannelNeverHoldsTick ==
  [][/\ \A k \in 1..Len(streams) :
          /\ streams[k].fired > 0 => ENABLED TickDebit(k)
          /\ streams[k].debited > 0 => ENABLED TickIncrement(k)
     /\ \A k \in 1..Len(streams) :
          LET st == streams[k] IN
          /\ streams'[k].fired < st.fired /\ beats_balance[st.wallet] > 0
               => /\ beats_balance'[st.wallet] = beats_balance[st.wallet] - 1
                  /\ streams'[k].debited = st.debited + 1
          /\ streams'[k].debited < st.debited
               => /\ sessions[st.sessionId].status = "OPEN"
                       => sessions'[st.sessionId].total_beats_paid
                            = sessions[st.sessionId].total_beats_paid + 1
                  /\ conn[st.ws] = "open" => lastMsg'[st.ws] = "beat_tick"]_vars

\* C25 witness: both sessions were ticked; the update of one session's tick was
\* sent and is not answered, the other session's tick has been counted since
C25_Witness ==
  /\ \E id \in 1..MaxRequestIds : peerInbox[id] > 0
  /\ \A s \in StartSessions : sessions[s].total_beats_paid = 1
  /\ \E s \in StartSessions : ~activeAppSessions[s]
  /\ lastMsg["w1"] = "beat_tick"

\* C26: total_beats_paid of a session never decreases, a step raises it by exactly
\* one or leaves it, and it does not change once the session's status is not OPEN,
\* for any interleaving of ticks, heartbeats and settle requests.
C26_ConsumedMonotoneWhileOpen ==
  [][\A s \in Sessions :
       /\ sessions'[s].total_beats_paid \in
            {sessions[s].total_beats_paid, sessions[s].total_beats_paid + 1}
       /\ sessions[s].status # "OPEN"
            => sessions'[s].total_beats_paid = sessions[s].total_beats_paid]_vars

\* C26 witness: a session was settled while a tick of it was debited and not yet
\* counted; that tick's increment has run since and left the total alone
C26_Witness ==
  \E s \in Sessions :
    /\ sessions[s].status = "SETTLED"
    /\ \E k \in 1..Len(streams) :
         /\ streams[k].sessionId = s
         /\ streams[k].secondsPlayed > sessions[s].total_beats_paid
         /\ Inflight(k) = 0

\* ---- the channel calls while the ClearNode session comes and goes ----------------
\* u1 has one beat, an OPEN session s1 (with an app session or not) and starts
\* another (one start request); s1 is metered by one stream and settled by one
\* settle request; the ClearNode socket closes and re-authenticates at any moment.
InitChannelCalls ==
  /\ beats_balance = [w \in Wallets |-> IF w \in Depositors THEN MaxBeats ELSE 0]
  /\ sessions = [s \in StartSessions |->
                   IF s \in Sessions THEN createSession("u1") ELSE NoSession]
  /\ stream_history = <<>>
  /\ usdc_earned = 0
  /\ conn = [ws \in ConnIds |-> "new"]
  /\ activeStreams = [ws \in ConnIds |-> 0]
  /\ streams = <<>>
  /\ timers = <<>>
  /\ lastMsg = [ws \in ConnIds |-> "none"]
  /\ reqs = [r \in ReqIds |-> IdleReq]
  /\ debitsSinceStop = [ws \in ConnIds |-> 0]
  /\ fan_subdomains = <<>>
  /\ ens_records = [w \in Wallets |-> 0]
  /\ mints = [m \in MintIds |-> IdleMint]
  /\ authenticated \in BOOLEAN
  /\ clearNode = connectionWhen(authenticated)
  /\ \E b \in BOOLEAN : activeAppSessions = [s \in StartSessions |-> b /\ s \in Sessions]
  /\ pendingRequests = [id \in 1..MaxRequestIds |-> "none"]
  /\ sendTimers = <<>>
  /\ peerInbox = [id \in 1..MaxRequestIds |-> 0]
  /\ requestClock = 0
  /\ starts = [q \in StartIds |-> IdleStart]
  /\ deposits = [d \in DepositIds |-> IdleDeposit]
  /\ arc = ArcConfigured
  /\ chain = DeployedChain

NextChannelCalls ==
  \/ ClearNodeClose
  \/ ReconnectTimer
  \/ ClearNodeOpen
  \/ AuthVerify
  \/ \E w \in Depositors, tr \in Tracks : StartBegin(Starts[1], w, tr, TRUE)
  \/ \E q \in StartIds : StartTrack(q)
  \/ \E q \in StartIds, s \in StartSessions : StartCreate(q, s)
  \/ \E ws \in ConnIds : WsConnect(ws)
  \/ \E ws \in ConnIds, s \in Sessions, w \in Depositors :
       Len(streams) = 0 /\ StartStream(ws, s, w)
  \/ \E t \in 1..Len(timers) : TimerFire(t)
  \/ \E k \in 1..Len(streams) : TickDebit(k)
  \/ \E k \in 1..Len(streams) : TickIncrement(k)
  \/ \E w \in Depositors, s \in Sessions : SettleBegin(Reqs[1], w, s)
  \/ \E id \in 1..MaxRequestIds, e \in BOOLEAN : PeerReply(id, e)
  \/ SendTimeout
  \/ \E r \in ReqIds, ok \in BOOLEAN : SettlePay(r, ok)
  \/ \E r \in ReqIds : SettleMark(r)
  \/ \E r \in ReqIds, ok \in BOOLEAN : SettleRecord(r, ok)

SpecChannelCalls == InitChannelCalls /\ [][NextChannelCalls]_vars

\* C27: while the channel client is not authenticated, a call of openStreamSession
\* returns null (the start request is answered with the fallback note), a call of
\* closeStreamSession returns false at once (the settle request goes on without
\* waiting) and a tick's update returns false; none of them sends a message to the
\* peer or changes activeAppSessions or pendingRequests.
C27_NotAuthenticatedCallsDoNothing ==
  [][~authenticated =>
       /\ \A q \in StartIds :
            starts[q].pc = "create" /\ starts'[q].pc # "create"
              => /\ starts'[q].pc = "done" /\ ~starts'[q].yellow
                 /\ UNCHANGED <<peerInbox, activeAppSessions, pendingRequests, sendTimers>>
       /\ \A r \in ReqIds :
            reqs[r].pc = "idle" /\ reqs'[r].pc # "idle"
              => /\ reqs'[r].pc # "close"
                 /\ UNCHANGED <<peerInbox, activeAppSessions, pendingRequests, sendTimers>>
       /\ \A k \in 1..Len(streams) :
            streams'[k].debited < streams[k].debited
              => UNCHANGED <<peerInbox, activeAppSessions, pendingRequests, sendTimers>>]_vars

\* C27 witness: the ClearNode socket closed after the session's app session was
\* opened; since then a start request was answered without an app session, a
\* settle request passed the channel close without waiting and a tick was counted,
\* and nothing was sent to the peer
C27_Witness ==
  /\ ~authenticated
  /\ \E s \in Sessions : activeAppSessions[s]
  /\ \E q \in StartIds : starts[q].pc = "done" /\ starts[q].resp = 201 /\ ~starts[q].yellow
  /\ \E r \in ReqIds : reqs[r].pc \in {"pay", "mark", "record", "done"} /\ reqs[r].sessionId # ""
  /\ \E s \in Sessions : sessions[s].total_beats_paid > 0
  /\ requestClock = 0

\* ---- deposits of any amount ----------------------------------------------------
\* Two deposit requests, of a registered or an unregistered wallet, for a
\* transaction that is verified or not, of one of DepositAmounts thousandths of a
\* USDC.
DepositAmounts == {0, 1, 999, 1000, 1001, 1024, 2002, 2500}

InitDeposit ==
  /\ beats_balance = [w \in Wallets |-> 0]
  /\ sessions = [s \in Sessions |-> createSession("u1")]
  /\ stream_history = <<>>
  /\ usdc_earned = 0
  /\ conn = [ws \in ConnIds |-> "new"]
  /\ activeStreams = [ws \in ConnIds |-> 0]
  /\ streams = <<>>
  /\ timers = <<>>
  /\ lastMsg = [ws \in ConnIds |-> "none"]
  /\ reqs = [r \in ReqIds |-> IdleReq]
  /\ debitsSinceStop = [ws \in ConnIds |-> 0]
  /\ fan_subdomains = <<>>
  /\ ens_records = [w \in Wallets |-> 0]
  /\ mints = [m \in MintIds |-> IdleMint]
  /\ ChannelDown
  /\ starts = [q \in StartIds |-> IdleStart]
  /\ deposits = [d \in DepositIds |-> IdleDeposit]
  /\ arc = ArcConfigured
  /\ chain = DeployedChain

NextDeposit ==
  \/ \E d \in DepositIds, w \in StartWallets, v \in BOOLEAN : DepositBegin(d, w, v)
  \/ \E d \in DepositIds, v \in BOOLEAN, a \in DepositAmounts : DepositVerify(d, v, a)
  \/ \E d \in DepositIds : DepositCredit(d)

SpecDeposit == InitDeposit /\ [][NextDeposit]_vars

\* C28: POST /api/deposit credits beats only for a verified transaction with a
\* non-zero amount, and then raises the listener's balance by exactly
\* floor(amount * 1000) beats: amount thousandths of a USDC are that many beats; a
\* request that is answered with an error leaves every balance unchanged.
C28_DepositCreditsExactBeats ==
  [][/\ \A d \in DepositIds :
          deposits[d].pc # "done" /\ deposits'[d].pc = "done"
            => IF deposits'[d].resp = 200
                 THEN /\ deposits'[d].amount > 0
                      /\ beats_balance' = [beats_balance EXCEPT ![deposits'[d].wallet] =
                           @ + (deposits'[d].amount * BEATS_PER_USDC) \div 1000]
                 ELSE beats_balance' = beats_balance
     /\ beats_balance' # beats_balance
          => \E d \in DepositIds : deposits[d].pc = "credit" /\ deposits'[d].pc = "done"]_vars


\* ---- the vault on its own -----------------------------------------------------
\* The listeners and the owner send deposits (after an approve of allowance base
\* units), the owner and a listener send settles in favour of the artist or of u2
\* (a listener can be an artist too), and any account sends a withdraw. The off-chain side does not move.
offChainVars == <<dbVars, wsVars, reqs, debitsSinceStop, fanVars, chanVars, starts, deposits, arc>>

VaultDeposit(sender, amount, allowance) ==
  /\ chain' = deposit(chain, sender, amount, allowance).chain
  /\ UNCHANGED offChainVars

VaultSettle(sender, artist, beatsUsed, user) ==
  /\ chain' = settle(chain, sender, artist, beatsUsed, user).chain
  /\ UNCHANGED offChainVars

VaultWithdraw(sender) ==
  /\ chain' = withdraw(chain, sender).chain
  /\ UNCHANGED offChainVars

\* amounts of USDC (base units) and numbers of beats the transactions are sent
\* with: zero, less than a beat, whole beats, and a number of beats whose amount
\* does not fit the word
UsdcAmounts == {0, USDC_PER_BEAT \div 2, USDC_PER_BEAT, 2 * USDC_PER_BEAT}
BeatsUsed == {0, 1, 2, UINT_MAX \div USDC_PER_BEAT + 1}
\* the addresses settle is asked to pay: any account but the vault itself
Payees == Accounts \ {vaultAddress}

InitVault ==
  /\ beats_balance = [w \in Wallets |-> 0]
  /\ sessions = [s \in Sessions |-> NoSession]
  /\ stream_history = <<>>
  /\ usdc_earned = 0
  /\ conn = [ws \in ConnIds |-> "new"]
  /\ activeStreams = [ws \in ConnIds |-> 0]
  /\ streams = <<>>
  /\ timers = <<>>
  /\ lastMsg = [ws \in ConnIds |-> "none"]
  /\ reqs = [r \in ReqIds |-> IdleReq]
  /\ debitsSinceStop = [ws \in ConnIds |-> 0]
  /\ fan_subdomains = <<>>
  /\ ens_records = [w \in Wallets |-> 0]
  /\ mints = [m \in MintIds |-> IdleMint]
  /\ ChannelDown
  /\ starts = [q \in StartIds |-> IdleStart]
  /\ deposits = [d \in DepositIds |-> IdleDeposit]
  /\ arc = ArcConfigured
  /\ chain = [DeployedChain EXCEPT !.balanceOf["u1"] = 2 * USDC_PER_BEAT + USDC_PER_BEAT \div 2,
                                   !.balanceOf["u2"] = USDC_PER_BEAT + USDC_PER_BEAT \div 2]

NextVault ==
  \/ \E sender \in Wallets \cup {vaultOwner}, amount \in UsdcAmounts, allowance \in {0, UINT_MAX} :
       VaultDeposit(sender, amount, allowance)
  \/ \E sender \in {vaultOwner, "u1"}, artist \in {artistWallet, "u2"},
        beatsUsed \in BeatsUsed, user \in Wallets :
       VaultSettle(sender, artist, beatsUsed, user)
  \/ \E sender \in Accounts : VaultWithdraw(sender)

SpecVault == InitVault /\ [][NextVault]_vars

CustodialDeposit(wallet, amountMilli) ==
  LET tx == deposit(chain, wallet, amountMilli * (USDC_BASE_UNITS \div BEATS_PER_USDC), UINT_MAX) IN
  /\ ~tx.reverted
  /\ beats_balance[wallet] + DebitsOf(wallet) + beatsToCreditOf[amountMilli] <= MaxBeats
  /\ chain' = tx.chain
  /\ beats_balance' = [beats_balance EXCEPT ![wallet] =
                         credit_beats(@, beatsToCreditOf[amountMilli])]
  /\ UNCHANGED <<sessions, stream_history, usdc_earned, wsVars, reqs, debitsSinceStop>>
  /\ UNCHANGED <<fanVars, chanVars, starts, deposits, arc>>

InitCustody ==
  /\ beats_balance = [w \in Wallets |-> 0]
  /\ sessions = [s \in Sessions |-> NoSession]
  /\ stream_history = <<>>
  /\ usdc_earned = 0
  /\ conn = [ws \in ConnIds |-> "new"]
  /\ activeStreams = [ws \in ConnIds |-> 0]
  /\ streams = <<>>
  /\ timers = <<>>
  /\ lastMsg = [ws \in ConnIds |-> "none"]
  /\ reqs = [r \in ReqIds |-> IdleReq]
  /\ debitsSinceStop = [ws \in ConnIds |-> 0]
  /\ fan_subdomains = <<>>
  /\ ens_records = [w \in Wallets |-> 0]
  /\ mints = [m \in MintIds |-> IdleMint]
  /\ ChannelDown
  /\ starts = [q \in StartIds |-> IdleStart]
  /\ deposits = [d \in DepositIds |-> IdleDeposit]
  /\ arc = ArcConfigured
  /\ chain = [DeployedChain EXCEPT !.balanceOf["u1"] = 2 * USDC_PER_BEAT]

NextCustody ==
  \/ \E w \in Depositors, a \in 1..2 : CustodialDeposit(w, a)
  \/ \E w \in Depositors : VaultWithdraw(w)
  \/ \E w \in Depositors, s \in Sessions : StartSession(w, s)
  \/ \E ws \in ConnIds : WsConnect(ws)
  \/ \E ws \in ConnIds, s \in Sessions, w \in Depositors :
       Len(streams) = 0 /\ StartStream(ws, s, w)
  \/ \E t \in 1..Len(timers) : TimerFire(t)
  \/ \E k \in 1..Len(streams) : TickDebit(k)
  \/ \E k \in 1..Len(streams) : TickIncrement(k)
  \/ \E ws \in ConnIds : StopStream(ws)
  \/ \E w \in Depositors, s \in Sessions : SettleBegin(Reqs[1], w, s)
  \/ \E r \in ReqIds, ok \in BOOLEAN : SettlePay(r, ok)
  \/ \E r \in ReqIds : SettleMark(r)
  \/ \E r \in ReqIds, ok \in BOOLEAN : SettleRecord(r, ok)

SpecCustody == InitCustody /\ [][NextCustody]_vars

\* the beats the vault has paid out of deposits so far (the artist is the only payee)
SettledOnChain == chain.artistEarnings[artistWallet] \div USDC_PER_BEAT

\* C30: for every listener, the vault's deposits[user] covers the beats debited
\* from the listener and not yet settled on-chain, at 1000 base units a beat, after
\* any sequence of deposits, ticks, settles and withdraws.
C30_DepositCoversUnsettledDebits ==
  \A w \in Depositors :
    chain.deposits[w] >= USDC_PER_BEAT * (DebitsOf(w) - SettledOnChain)


\* ---- what a settle request pays ---------------------------------------------------
\* C31: during settle the settlement service is called if and only if the
\* session's credits_consumed (total_beats_paid) is > 0, with the amount
\* credits_consumed / 1000 USDC, and the creator's earnings go up by exactly that
\* amount if and only if the call reports success; with credits_consumed = 0 no
\* value moves. Step by step: the step that calls the service finds the stored
\* total > 0 and equal to the total the amount is computed from, and changes the
\* earnings by that amount or not at all; a handler that passes the call by leaves
\* earnings and chain alone; and when the handler marks the session SETTLED, the
\* stored total is > 0 exactly when the handler has called the service.
C31_SettlementCalledIffConsumed ==
  [][\A r \in ReqIds :
       LET s == reqs'[r].sessionId
           called == reqs[r].pc = "pay" /\ reqs'[r].pc = "mark"
           passedBy == reqs[r].pc \in {"idle", "close"} /\ reqs'[r].pc = "mark"
           marks == reqs[r].pc = "mark" /\ reqs'[r].pc # "mark"
       IN /\ called =>
               /\ sessions[s].total_beats_paid > 0
               /\ reqs[r].totalBeats = sessions[s].total_beats_paid
               /\ usdc_earned' = IF reqs'[r].success
                                   THEN usdc_earned + usdcAmount(sessions[s].total_beats_paid)
                                   ELSE usdc_earned
          /\ passedBy => usdc_earned' = usdc_earned /\ chain' = chain
          /\ marks => (sessions'[s].total_beats_paid > 0 <=> reqs[r].totalBeats > 0)
    ]_vars


\* ---- the server without (all of) its Circle configuration -----------------------
\* initArc returns before creating the SDKs when the API key or the entity secret
\* is missing; with them, the wallet id and the vault address may still be unset.
\* A session of u1 is OPEN with one beat consumed; deposits and settle requests
\* arrive.
ArcStates ==
  {a \in [walletSdk : BOOLEAN, circleWalletId : BOOLEAN, vaultContractAddress : BOOLEAN] :
     /\ a # ArcConfigured
     /\ ~a.walletSdk => ~a.circleWalletId /\ ~a.vaultContractAddress}

InitSimulated ==
  /\ beats_balance = [w \in Wallets |-> 0]
  /\ sessions = [s \in Sessions |-> [createSession("u1") EXCEPT !.total_beats_paid = 1]]
  /\ stream_history = <<>>
  /\ usdc_earned = 0
  /\ conn = [ws \in ConnIds |-> "new"]
  /\ activeStreams = [ws \in ConnIds |-> 0]
  /\ streams = <<>>
  /\ timers = <<>>
  /\ lastMsg = [ws \in ConnIds |-> "none"]
  /\ reqs = [r \in ReqIds |-> IdleReq]
  /\ debitsSinceStop = [ws \in ConnIds |-> 0]
  /\ fan_subdomains = <<>>
  /\ ens_records = [w \in Wallets |-> 0]
  /\ mints = [m \in MintIds |-> IdleMint]
  /\ ChannelDown
  /\ starts = [q \in StartIds |-> IdleStart]
  /\ deposits = [d \in DepositIds |-> IdleDeposit]
  /\ arc \in ArcStates
  /\ chain = DeployedChain

NextSimulated ==
  \/ \E d \in DepositIds, w \in Wallets, v \in BOOLEAN : DepositBegin(d, w, v)
  \/ \E d \in DepositIds, v \in BOOLEAN, a \in {0, 1} : DepositVerify(d, v, a)
  \/ \E d \in DepositIds : DepositCredit(d)
  \/ \E r \in ReqIds, w \in Wallets, s \in Sessions : SettleBegin(r, w, s)
  \/ \E r \in ReqIds, ok \in BOOLEAN : SettlePay(r, ok)
  \/ \E r \in ReqIds : SettleMark(r)
  \/ \E r \in ReqIds, ok \in BOOLEAN : SettleRecord(r, ok)

SpecSimulated == InitSimulated /\ [][NextSimulated]_vars

\* C32: no ledger value is credited on a synthesized external result. While the
\* settlement service is not configured, no step raises the creator's earnings
\* and no settle request carries a transaction reference; while the deposit
\* service is not configured, no step raises a listener's balance and no deposit
\* request is answered with success.
C32_NoCreditOnSynthesizedResult ==
  [][/\ (~arc.walletSdk \/ ~arc.circleWalletId \/ ~arc.vaultContractAddress)
          => /\ usdc_earned' = usdc_earned
             /\ \A r \in ReqIds : reqs'[r].txHash = "null"
     /\ ~arc.walletSdk
          => /\ \A w \in Wallets : beats_balance'[w] <= beats_balance[w]
             /\ \A d \in DepositIds : deposits'[d].resp # 200
    ]_vars


\* ---- what beat_tick reports ---------------------------------------------------------
\* A beat_tick is sent by the step that completes a tick's increment; it carries
\* stream.secondsPlayed and stream.totalBeatsPaid as they are at that moment, and
\* the newBalance that the tick's own debit returned.
\* C33: every beat_tick reports values consistent with the ledger: its
\* totalBeatsPaid equals the session's stored total_beats_paid right after that
\* tick's increment (its secondsPlayed is the stream's count of successful debits
\* and its beatsRemaining is the value the tick's debit returned).
C33_BeatTickMatchesLedger ==
  [][\A k \in 1..Len(streams) :
       streams'[k].debited < streams[k].debited
         => streams'[k].totalBeatsPaid
              = sessions'[streams[k].sessionId].total_beats_paid
    ]_vars

\* ---- C34: reconnect of the channel client ------------------------------------
\* C34: every close of a ClearNode connection sets authenticated to false and
\* schedules exactly one reconnect attempt; a new connection is only ever made by
\* a reconnect timer; authenticated turns true only on an AuthVerify step while a
\* connection is open; and at most one ClearNode connection is open (or being
\* opened) at any time.
C34_ReconnectOnClose ==
  [][LET liveSockets(c) == c.connecting + c.open IN
     /\ liveSockets(clearNode') < liveSockets(clearNode)
          => /\ ~authenticated'
             /\ clearNode'.reconnects = clearNode.reconnects + 1
             /\ liveSockets(clearNode') = liveSockets(clearNode) - 1
     /\ liveSockets(clearNode') > liveSockets(clearNode)
          => /\ clearNode'.reconnects = clearNode.reconnects - 1
             /\ liveSockets(clearNode') = liveSockets(clearNode) + 1
     /\ (~authenticated /\ authenticated')
          => clearNode.open = 1 /\ clearNode' = clearNode
     /\ liveSockets(clearNode') <= 1
    ]_vars

\* the connection closed while a request was waiting for its reply: the client is
\* unauthenticated, no socket is left and exactly one reconnect timer is pending
C34_Witness ==
  /\ ~authenticated
  /\ clearNode = [connecting |-> 0, open |-> 0, reconnects |-> 1]
  /\ \E id \in 1..MaxRequestIds : pendingRequests[id] # "none"

\* ---- C35: pause and resume ---------------------------------------------------
\* C35: while the stream of a connection is paused (stream_paused was the last
\* message sent on it and resume_stream has not been processed) no tick of that stream debits
\* the listener or increments the session's total_beats_paid; a resume_stream
\* leaves the stream with exactly one running timer, and a pause leaves it with
\* none.
C35_PausedStreamTakesNoDebit ==
  [][LET RunningTimers(ts, k) == {t \in 1..Len(ts) : ts[t].stream = k /\ ts[t].active}
         Paused(ws) == /\ activeStreams[ws] # 0
                       /\ streams[activeStreams[ws]].interval = 0
                       /\ lastMsg[ws] = "stream_paused"
     IN
     \A ws \in ConnIds :
       LET k == activeStreams[ws] IN
       /\ Paused(ws) =>
            /\ streams'[k].debited = streams[k].debited
            /\ streams'[k].interval # 0 => Cardinality(RunningTimers(timers', k)) = 1
       /\ (k # 0 /\ streams[k].interval # 0 /\ streams'[k].interval = 0
           /\ lastMsg'[ws] = "stream_paused")
            => RunningTimers(timers', k) = {}
    ]_vars

\* ---- C36: who can cause debits -----------------------------------------------
\* The stream socket in the hands of a party that does not hold the session owner's
\* key. The server accepts every WebSocket connection on /ws/stream and reads
\* sessionId and wallet from the start_stream message; the only signature it checks
\* on the socket is the heartbeat's voucher.
Intruder == "u2"

\* verifySig(message, signature, expectedAddress): viem's verifyMessage is true only
\* for a signature made with the key of expectedAddress
verifySig(signer, expectedAddress) == signer = expectedAddress

\* stream.wallet of the stream of connection ws
StreamWallet(ws) ==
  IF activeStreams[ws] = 0 THEN "" ELSE streams[activeStreams[ws]].wallet

\* u1 has a balance and an OPEN session and sends nothing; every message on the
\* socket comes from the intruder, who is free to write any wallet into start_stream
InitIntruder ==
  /\ beats_balance = [w \in Wallets |-> IF w = Intruder THEN 0 ELSE TickBeats]
  /\ sessions = [s \in Sessions |-> createSession("u1")]
  /\ stream_history = <<>>
  /\ usdc_earned = 0
  /\ conn = [ws \in ConnIds |-> "new"]
  /\ activeStreams = [ws \in ConnIds |-> 0]
  /\ streams = <<>>
  /\ timers = <<>>
  /\ lastMsg = [ws \in ConnIds |-> "none"]
  /\ reqs = [r \in ReqIds |-> IdleReq]
  /\ debitsSinceStop = [ws \in ConnIds |-> 0]
  /\ fan_subdomains = <<>>
  /\ ens_records = [w \in Wallets |-> 0]
  /\ mints = [m \in MintIds |-> IdleMint]
  /\ ChannelDown
  /\ starts = [q \in StartIds |-> IdleStart]
  /\ deposits = [d \in DepositIds |-> IdleDeposit]
  /\ arc = ArcConfigured
  /\ chain = DeployedChain

NextIntruder ==
  \/ \E ws \in ConnIds : WsConnect(ws)
  \/ \E ws \in ConnIds, s \in Sessions, w \in Wallets : StartStream(ws, s, w)
  \/ \E t \in 1..Len(timers) : TimerFire(t)
  \/ \E k \in 1..Len(streams) : TickDebit(k)
  \/ \E k \in 1..Len(streams) : TickIncrement(k)
  \/ \E ws \in ConnIds : Heartbeat(ws, verifySig(Intruder, StreamWallet(ws)))
  \/ \E ws \in ConnIds : PauseStream(ws)
  \/ \E ws \in ConnIds : ResumeStream(ws)
  \/ \E ws \in ConnIds : StopStream(ws)
  \/ \E ws \in ConnIds : WsClose(ws)

SpecIntruder == InitIntruder /\ [][NextIntruder]_vars

\* C36: messages of a party that cannot sign with the session owner's wallet never
\* lower the owner's balance and never raise the session's total_beats_paid.
C36_OnlyOwnerCausesDebits ==
  [][/\ \A w \in Wallets \ {Intruder} : beats_balance'[w] >= beats_balance[w]
     /\ \A s \in Sessions :
          sessions[s].user_wallet # Intruder
            => sessions'[s].total_beats_paid <= sessions[s].total_beats_paid
    ]_vars

\* ---- C37: a deposit transaction presented again ------------------------------
\* Circle's transactions as getTransaction reports them: tx1 and tx2 are COMPLETE
\* deposits (amounts in thousandths of a USDC), tx0 is still pending
CircleTransactions ==
  [tx1 |-> [complete |-> TRUE, amount |-> BEATS_PER_USDC],
   tx2 |-> [complete |-> TRUE, amount |-> 2 * BEATS_PER_USDC],
   tx0 |-> [complete |-> FALSE, amount |-> 0]]

\* the requests carry any wallet, signature and txHash, the same ones again included
\* (the signed message names the wallet and a nonce, and no nonce is remembered);
\* verifyDeposit(txHash) looks the transaction up at Circle and nowhere else
NextReplay ==
  \/ \E d \in DepositIds, w \in StartWallets, v \in BOOLEAN : DepositBegin(d, w, v)
  \/ \E d \in DepositIds, tx \in DOMAIN CircleTransactions :
       DepositVerify(d, CircleTransactions[tx].complete, CircleTransactions[tx].amount)
  \/ \E d \in DepositIds : DepositCredit(d)

SpecReplay == InitDeposit /\ [][NextReplay]_vars

RECURSIVE SumBalances(_, _)
SumBalances(balance, W) ==
  IF W = {} THEN 0
  ELSE LET w == CHOOSE x \in W : TRUE IN balance[w] + SumBalances(balance, W \ {w})

RECURSIVE SumDeposited(_)
SumDeposited(T) ==
  IF T = {} THEN 0
  ELSE LET tx == CHOOSE x \in T : TRUE
       IN (CircleTransactions[tx].amount * BEATS_PER_USDC) \div 1000 + SumDeposited(T \ {tx})

\* C37: each verified deposit transaction is credited at most once, also when its
\* txHash or a signed request is presented again: the balances credited by
\* POST /api/deposit never exceed the beats of the COMPLETE transactions, each
\* counted once.
C37_DepositCreditedAtMostOnce ==
  SumBalances(beats_balance, Wallets)
    <= SumDeposited({tx \in DOMAIN CircleTransactions : CircleTransactions[tx].complete})

\* ---- C38: the vault's books and its USDC ---------------------------------------
RECURSIVE SumOver(_, _)
SumOver(f, A) ==
  IF A = {} THEN 0
  ELSE LET a == CHOOSE x \in A : TRUE IN f[a] + SumOver(f, A \ {a})

\* USDC deposited by a step: what the vault's balance gains (only deposit moves
\* USDC into the vault)
DepositedBy(c, d) ==
  IF d.balanceOf[vaultAddress] > c.balanceOf[vaultAddress]
    THEN d.balanceOf[vaultAddress] - c.balanceOf[vaultAddress] ELSE 0

\* USDC withdrawn by a step: what the vault's balance loses when the step is a
\* completed withdraw() of some account
WithdrawnBy(c, d) ==
  IF \E sender \in Accounts :
       ~withdraw(c, sender).reverted /\ d = withdraw(c, sender).chain
    THEN c.balanceOf[vaultAddress] - d.balanceOf[vaultAddress] ELSE 0

\* C38: after any sequence of deposit, settle and withdraw calls the vault holds at
\* least the sum of all users' deposits, and total USDC deposited = sum of deposits
\* + sum of artistEarnings + total withdrawn: the books are empty at deployment and
\* every step changes them by what it deposits minus what it withdraws.
C38_VaultConservation ==
  /\ [](chain.balanceOf[vaultAddress] >= SumOver(chain.deposits, Accounts))
  /\ [][LET Books(c) == SumOver(c.deposits, Accounts) + SumOver(c.artistEarnings, Accounts)
        IN Books(chain') - Books(chain)
             = DepositedBy(chain, chain') - WithdrawnBy(chain, chain')]_vars

\* deposits and settles in favour of two payees have completed: both payees have
\* earnings on the books, u1 has a deposit left and u2 has none in the vault
C38_Witness ==
  /\ chain.deposits["u1"] > 0
  /\ chain.deposits["u2"] = 0
  /\ chain.artistEarnings[artistWallet] > 0
  /\ chain.artistEarnings["u2"] > 0
  /\ chain.balanceOf[vaultAddress] = chain.deposits["u1"]

\* ---- C39: every sendAndWait call settles ---------------------------------------
\* C39: every sendAndWait call settles exactly once, also when two calls share a
\* Date.now() request id: a caller that waits is settled by the reply (the
\* pendingRequests entry of its request id resolves or rejects its promise) or, at
\* the latest, by its own timeout (its timer is pending and will find an entry
\* under its request id), and never waits without either.
C39_SendAndWaitSettles ==
  \A owner \in ReqIds \cup StartIds, id \in 1..MaxRequestIds :
    Waiting(owner, id)
      => \/ pendingRequests[id] = owner
         \/ /\ pendingRequests[id] # "none"
            /\ \E i \in 1..Len(sendTimers) :
                 sendTimers[i] = [owner |-> owner, requestId |-> id]

====
